---- MODULE Spec2Model ----
(***************************************************************************)
(* Model of the Dust-GitLab MCP bridge: src/src/index.ts (single-instance  *)
(* coordinator, SSE stream, POST correlation, warm-up) and                 *)
(* src/src/mcp-wrapper.ts (process supervisor).                            *)
(*                                                                         *)
(* Scheduling: Node's event loop.  One action is one macrotask (an HTTP    *)
(* request reaching its handler, a timer callback, a child-process event)  *)
(* together with the promise continuations it makes runnable, which Node   *)
(* runs to completion before the next macrotask.                           *)
(*                                                                         *)
(* Several specifications share the module, each over its own variables    *)
(* and leaving the variables of the others alone.  Spec is the bridge;     *)
(* SpecTimers is Spec with every 30 s timer firing, SpecStartUp is Spec    *)
(* with the start-up of every wrapper ending.  SpecStdout feeds the stdout *)
(* of a child, cut into chunks, to handleStdoutData.  SpecListeners        *)
(* counts the 'message' listeners of one wrapper under concurrent          *)
(* requests.  SpecSupervisor is one MCPWrapper under any caller of start,  *)
(* sendMessage and stop; SpecSupervisorFair is the same with its timers    *)
(* and child events delivered.  SpecFixParams passes one POST body through *)
(* the parameter reconciliation, SpecStderr one chunk through the stderr   *)
(* handler.  SpecSessions is one SessionManager under any caller,          *)
(* SpecSessionsFair the same with its timers firing.                       *)
(***************************************************************************)
EXTENDS Integers, Sequences, FiniteSets, TLC

\* ------------------------------------------------------------------ bounds
MaxWrappers == 2   \* MCPWrapper instances constructed in one run
MaxStreams == 1    \* GET /sse requests in one run
MaxCalls == 2      \* POST /sse/messages requests in one run
MaxLog == 2        \* events written to one stream
MaxBytes == 5      \* bytes the child writes to its stdout
MaxSubmissions == 50   \* POSTs waiting for a reply at the same time
MaxChildren == 2   \* processes one MCPWrapper spawns under any caller
MaxStops == 2      \* calls of stop() on one MCPWrapper
MaxSends == 2      \* calls of sendMessage() that write a line
MaxWords == 3      \* words in one chunk of the child's stderr
MaxSessions == 2   \* sessions one SessionManager creates
MaxTime == 4       \* reading of the clock at which the run ends

WrapperIds == 1..MaxWrappers
StreamIds == 1..MaxStreams
CallIds == 1..MaxCalls

\* ---------------------------------------------------------------- messages
\* msg.id === undefined
NoId == "undefined"
\* ids a client puts in its requests
ClientIds == {"1", "2"}
\* ids of the two warm-up requests (index.ts:316, index.ts:340)
WarmupId(n) == IF n = 1 THEN "warmup-init" ELSE "warmup-tools"
WarmIds == {WarmupId(1), WarmupId(2)}

\* MCPMessage, reduced to the fields the bridge reads: id and whether a
\* method is present (request/notification) or not (response).
MCPMessage == [id : ClientIds \cup WarmIds \cup {NoId}, method : BOOLEAN]
\* the value of a variable that holds no message
NoMsg == [id |-> "null", method |-> FALSE]

\* ---------------------------------------------------------- authentication
\* process.env.MCP_AUTH_SECRET: not empty (index.ts:69-74)
MCP_AUTH_SECRET == "s3cret"

\* req.headers.authorization: absent, or a scheme prefix followed by a token
NoHeader == [present |-> FALSE, scheme |-> "", token |-> ""]
Headers ==
    {NoHeader}
    \cup [present : {TRUE}, scheme : {"Bearer ", "Basic "},
          token : {MCP_AUTH_SECRET, "wrong", ""}]

\* an auth that accepts any Bearer token
AnyBearerPasses(h) == h.present /\ h.scheme = "Bearer "

\* auth calls next(): index.ts:77-95
AuthPasses(h) ==
    /\ h.present
    /\ h.scheme = "Bearer "
    /\ h.token = MCP_AUTH_SECRET

\* ------------------------------------------------------------------- state
VARIABLES
    globalMCPWrapper,        \* index.ts:29, 0 is null
    wrapperCreationPromise,  \* index.ts:30, 0 is null, k is the creation of wrapper k
    nWrappers,               \* MCPWrapper instances constructed so far
    wrappers,                \* the MCPWrapper instances
    streams,                 \* GET /sse requests
    calls,                   \* POST /sse/messages requests
    warm,                    \* the app.listen callback
    \* handleStdoutData of one MCPWrapper, fed the stdout of its child
    stdout,                  \* the chunks of the 'data' events, in order
    fed,                     \* how many of them handleStdoutData has been called with
    messageBuffer,           \* mcp-wrapper.ts:26
    emitted,                 \* the arguments of emit('message', ...), in order
    errorEvents,             \* how many times handleStdoutData called emit('error', ...)
    \* the 'message' listeners of one MCPWrapper under concurrent requests
    handlers,                \* handlers of POSTs waiting for their reply
    onMessages,              \* onMessage listeners of open streams
    warned,                  \* MaxListenersExceededWarning was emitted
    unhandled,               \* emit('error', ...) found no 'error' listener
    \* one MCPWrapper under any caller of start, sendMessage and stop
    this,                    \* its fields process (0 is null) and isInitialized
    children,                \* the ChildProcess objects it spawned
    starts,                  \* the promises of the calls of start() that spawned
    readyTimers,             \* the pending 1000 ms timers, named by their start()
    stops,                   \* the calls of stop()
    returned,                \* how the last call of start, sendMessage or stop ended
    sendLog,                 \* the calls of sendMessage that did not throw, in order
    \* one POST body on its way through the parameter reconciliation
    body,                    \* req.body
    forwarded,               \* msg after index.ts:212-217, or the TypeError thrown
    \* one chunk of the child's stderr on its way through the 'data' handler
    stderrData,              \* the words of the chunk
    logged,                  \* the console call made for it, "none" before
    stderrErrors,            \* how many times emit('error', ...) was called for it
    \* one SessionManager under any caller
    now,                     \* Date.now(), in units of half an hour
    sessions                 \* this.sessions and the wrappers of its sessions

\* the variables of the bridge (index.ts with its wrappers)
bridge == <<globalMCPWrapper, wrapperCreationPromise, nWrappers, wrappers, streams,
            calls, warm>>
\* the variables of the stdout codec
codec == <<stdout, fed, messageBuffer, emitted, errorEvents>>
\* the variables of the listener list
emitter == <<handlers, onMessages, warned, unhandled>>
\* the variables of the wrapper under any caller
supervisor == <<this, children, starts, readyTimers, stops, returned, sendLog>>

\* the variables of the parameter reconciliation
shim == <<body, forwarded>>

\* the variables of the stderr handler
diag == <<stderrData, logged, stderrErrors>>

\* the variables of the SessionManager
registry == <<now, sessions>>

vars == <<bridge, codec, emitter, supervisor, shim, diag, registry>>

\* A message listener of a wrapper: the onMessage of stream n, the handler of
\* POST n, or the handler of warm-up request n.
Listener(kind, n) == [kind |-> kind, n |-> n]

\* new MCPWrapper(...): fields of mcp-wrapper.ts:25-27 plus the child behind them
\*   process        this.process ("null" or "child")
\*   killed         this.process.killed
\*   isInitialized  this.isInitialized
\*   child          the operating-system process: "none", "spawnError" (spawn
\*                  failed, 'error' not yet emitted), "failed" (its 'error' was
\*                  emitted), "alive", "exited"
\*   timer          the 1000 ms readiness timer is pending
\*   start          the promise of start(): "none", "pending", "resolved", "rejected"
\*   message, error listeners of the EventEmitter
NewWrapper ==
    [process |-> "null", killed |-> FALSE, isInitialized |-> FALSE, child |-> "none",
     timer |-> FALSE, start |-> "none", message |-> {}, error |-> {}]

\* A GET /sse request
\*   pc          "idle", "unauthorized" (401 sent by auth), "awaitWrapper",
\*               "open" (listeners attached), "failed" (catch block ran),
\*               "closed" (close handler ran)
\*   awaits      the creation whose promise the request is suspended on, else 0
\*   wrapper     const wrapper, 0 before it is assigned
\*   clientGone  the client has disconnected
\*   session     sessionStore has the stream's entry
\*   keepalive   the keepalive interval is set
\*   log         the events written to the client
\* and one observation of the run, read by no operation:
\*   emitted     the messages without id that processes emitted while the
\*               stream had its listeners attached and its client connected
NewStream ==
    [pc |-> "idle", awaits |-> 0, wrapper |-> 0, clientGone |-> FALSE,
     session |-> FALSE, keepalive |-> FALSE, log |-> <<>>, emitted |-> 0]

\* A POST /sse/messages request
\*   pc        "idle", "awaitWrapper", "waiting" (promise of index.ts:247
\*             pending), "done" (HTTP response sent), "threw" (the handler
\*             ended with an exception nothing caught)
\*   id        msg.id, once the handler has read it (index.ts:236)
\*   timer     the 30 s timer is pending
\*   status    HTTP status of the response, 0 before it is sent
\*   outcome   "none", "unauthorized", "invalid", "threw", "accepted",
\*             "resolved", "timeout", "startFailed", "sendFailed"
\*   result    the message returned in the body of a 200 response
\*   sent      the lines that sendMessage wrote to the child's stdin for this
\*             request (mcp-wrapper.ts:166-167)
\* and two observations of the run, read by no operation:
\*   lateReply  the child wrote a response carrying the id after the
\*              response of this request was sent
\*   after      the POSTs that had timed out when this one arrived
NewCall ==
    [pc |-> "idle", id |-> NoId, awaits |-> 0, wrapper |-> 0, timer |-> FALSE,
     status |-> 0, outcome |-> "none", result |-> NoMsg, sent |-> 0,
     lateReply |-> FALSE, after |-> {}]

\* The app.listen callback
\*   pc  "init", "awaitWrapper", "awaitInit", "awaitTools", "done", "failed"
\*   timer1, timer2  the 15 s timers of the two warm-up requests
NewWarm ==
    [pc |-> "init", awaits |-> 0, wrapper |-> 0, timer1 |-> FALSE, timer2 |-> FALSE]

\* the bridge after the module was loaded
BridgeInit ==
    /\ globalMCPWrapper = 0
    /\ wrapperCreationPromise = 0
    /\ nWrappers = 0
    /\ wrappers = [w \in WrapperIds |-> NewWrapper]
    /\ streams = [s \in StreamIds |-> NewStream]
    /\ calls = [c \in CallIds |-> NewCall]
    /\ warm = NewWarm

\* a wrapper whose child has written nothing
CodecInit ==
    /\ stdout = <<>>
    /\ fed = 0
    /\ messageBuffer = <<>>
    /\ emitted = <<>>
    /\ errorEvents = 0

\* a wrapper without listeners: mcp-wrapper.ts:29-34
EmitterInit ==
    /\ handlers = 0
    /\ onMessages = 0
    /\ warned = FALSE
    /\ unhandled = FALSE

\* ChildProcess: what the operating system made of it ("none" before the
\* spawn, then as for a wrapper of the bridge), its field killed, whether a
\* SIGKILL was delivered to it, and its stdin: the segments the pipe has taken
\* and those still queued in the Writable
NewChild ==
    [state |-> "none", killed |-> FALSE, sigkill |-> FALSE, pipe |-> <<>>,
     queue |-> <<>>]

\* A call of stop()
\*   state   "none", "pending", "resolved"
\*   target  the child whose 'exit' the once() listener waits for, 0 if none
\*   timer   the 5000 ms timer is pending
\*   before  the readiness timers that were pending when stop() was called
NewStop == [state |-> "none", target |-> 0, timer |-> FALSE, before |-> {}]

\* new MCPWrapper(...): mcp-wrapper.ts:25-34
SupervisorInit ==
    /\ this = [process |-> 0, isInitialized |-> FALSE]
    /\ children = [n \in 1..MaxChildren |-> NewChild]
    /\ starts = [n \in 1..MaxChildren |-> "none"]
    /\ readyTimers = {}
    /\ stops = [j \in 1..MaxStops |-> NewStop]
    /\ returned = "none"
    /\ sendLog = <<>>

\* the argument names fixParams knows: alternate and expected name of each pair
Pairs == {<<"project", "project_id">>, <<"branch", "ref">>, <<"path", "file_path">>}
ArgNames == {pr[1] : pr \in Pairs} \cup {pr[2] : pr \in Pairs}

\* the value of an argument: "absent" (no such key), "empty" (the empty
\* string, a value JavaScript takes for false) or a non-empty string
ArgValues == {"absent", "empty", "x", "y"}

\* arguments without keys
NoArguments == [a \in ArgNames |-> "absent"]

\* A POST body with jsonrpc '2.0', reduced to what fixParams reads
\*   method     msg.method
\*   params     "absent" (no params), "bare" (params without arguments) or
\*              "arguments" (params.arguments is an object)
\*   arguments  params.arguments, NoArguments when there is none
Bodies ==
    [method : {"tools/call", "tools/list"}, params : {"absent", "bare"},
     arguments : {NoArguments}]
    \cup [method : {"tools/call", "tools/list"}, params : {"arguments"},
          arguments : [ArgNames -> ArgValues]]

\* a request that has not been through index.ts:212-217
Arrived(msg) == [done |-> FALSE, threw |-> FALSE, msg |-> msg]

\* a tools/list request without params has arrived
ShimInit ==
    /\ body = [method |-> "tools/list", params |-> "absent", arguments |-> NoArguments]
    /\ forwarded = Arrived(body)

\* the child has written nothing to its stderr
DiagInit ==
    /\ stderrData = <<>>
    /\ logged = "none"
    /\ stderrErrors = 0

\* A session of the SessionManager: index.ts:361-366, 384-391
\*   inMap         this.sessions has the session
\*   createdAt     session.createdAt
\*   mcpWrapper    session.mcpWrapper, a wrapper as in the bridge
\*   stopping      a destroySession of it awaits stop()
\*   killTimer     a 5000 ms timer of a stop() is pending
\*   sigkill       a SIGKILL was delivered to its process
\*   pc            createSession(): "none", "awaitStart", "returned" (the id),
\*                 "threw" (the error of start())
\*   disconnected  the disconnected events written to session.response
\*   ended         session.response was ended
\* and one observation of the run, read by no operation:
\*   lastActivity  when the session was created or last sent a message
NewSession ==
    [inMap |-> FALSE, createdAt |-> 0, mcpWrapper |-> NewWrapper, stopping |-> FALSE,
     killTimer |-> FALSE, sigkill |-> FALSE, pc |-> "none", disconnected |-> 0,
     ended |-> FALSE, lastActivity |-> 0]

\* new SessionManager(): index.ts:369
RegistryInit ==
    /\ now = 0
    /\ sessions = [s \in 1..MaxSessions |-> NewSession]

Init ==
    /\ BridgeInit
    /\ CodecInit
    /\ EmitterInit
    /\ SupervisorInit
    /\ ShimInit
    /\ DiagInit
    /\ RegistryInit

\* ------------------------------------------------- MCPWrapper (supervisor)
\* isRunning(): mcp-wrapper.ts:197-199
isRunning(w) == w.isInitialized /\ w.process # "null" /\ ~w.killed

\* sendMessage() throws 'MCP server not running': mcp-wrapper.ts:162-164
sendMessageThrows(w) == w.process = "null" \/ ~w.isInitialized

\* start() up to the return of the promise executor: spawn, handlers
\* registered, readiness timer armed.  outcome is what the operating system
\* made of the spawn: "alive" or "spawnError".
Spawn(w, outcome) ==
    [w EXCEPT !.process = "child", !.killed = FALSE, !.child = outcome,
              !.timer = TRUE, !.start = "pending"]

\* the test of the readiness timer: mcp-wrapper.ts:122
ReadyTest(w) == w.process # "null" /\ ~w.killed

\* the body of the readiness timer callback, on the wrapper's own fields
ReadyFired(w) ==
    [w EXCEPT !.timer = FALSE,
              !.isInitialized = IF ReadyTest(w) THEN TRUE ELSE @,
              !.start = IF @ = "pending"
                        THEN (IF ReadyTest(w) THEN "resolved" ELSE "rejected")
                        ELSE @]

\* the 'error' handler of the child process: reject(error)
ErrorFired(w) ==
    [w EXCEPT !.child = "failed",
              !.start = IF @ = "pending" THEN "rejected" ELSE @]

\* an 'exit' handler that leaves the fields of the wrapper as they are
ExitClearsNothing(w) == [w EXCEPT !.child = "exited"]

\* the 'exit' handler of the child process
ExitFired(w) ==
    [w EXCEPT !.child = "exited", !.process = "null", !.isInitialized = FALSE]

\* ------------------------------------------------------ writes to a stream
Event(type, m) == [event |-> type, id |-> m.id, method |-> m.method]

\* res.write on the stream; nothing reaches a client that has disconnected
Write(st, ev) == IF st.clientGone THEN st.log ELSE Append(st.log, ev)

\* ------------------------------- continuations of await getOrCreateMCPWrapper
\* GET /sse after the wrapper arrived: listeners attached, 'close' registered
StreamResolved(st, k) == [st EXCEPT !.pc = "open", !.awaits = 0, !.wrapper = k]

\* GET /sse catch block: index.ts:165-171
StreamRejected(st) ==
    [st EXCEPT !.pc = "failed", !.awaits = 0, !.keepalive = FALSE,
               !.session = FALSE, !.log = Write(st, Event("error", NoMsg))]

\* a POST that treats no message as a notification
NothingIsNotification(cl) == FALSE

\* the test of index.ts:236
IsNotification(cl) == cl.id = NoId

\* POST after the wrapper arrived: index.ts:235-265.  W is the wrapper.
CallResolved(cl, k, W) ==
    IF IsNotification(cl)
    THEN IF sendMessageThrows(W)
         THEN [cl EXCEPT !.pc = "done", !.awaits = 0, !.wrapper = k,
                         !.status = 500, !.outcome = "sendFailed"]
         ELSE [cl EXCEPT !.pc = "done", !.awaits = 0, !.wrapper = k, !.sent = 1,
                         !.status = 202, !.outcome = "accepted"]
    ELSE IF sendMessageThrows(W)
         THEN [cl EXCEPT !.pc = "done", !.awaits = 0, !.wrapper = k, !.timer = TRUE,
                         !.status = 500, !.outcome = "sendFailed"]
         ELSE [cl EXCEPT !.pc = "waiting", !.awaits = 0, !.wrapper = k,
                         !.timer = TRUE, !.sent = 1]

\* POST catch block when getOrCreateMCPWrapper rejected: index.ts:279-286
CallRejected(cl) ==
    [cl EXCEPT !.pc = "done", !.awaits = 0, !.status = 500, !.outcome = "startFailed"]

\* warm-up after the wrapper arrived: first request, index.ts:304-324
WarmResolved(wm, k, W) ==
    IF sendMessageThrows(W)
    THEN [wm EXCEPT !.pc = "failed", !.awaits = 0, !.wrapper = k, !.timer1 = TRUE]
    ELSE [wm EXCEPT !.pc = "awaitInit", !.awaits = 0, !.wrapper = k, !.timer1 = TRUE]

\* warm-up catch block: index.ts:347-350
WarmRejected(wm) == [wm EXCEPT !.pc = "failed", !.awaits = 0]

\* The callers in S (streams), C (POSTs) and, if wf, the warm-up receive the
\* outcome of getOrCreateMCPWrapper: wrapper k if ok, a rejection otherwise.
\* W, St, Cl, Wm are the values the macrotask has given the variables so far.
Deliver(k, ok, W, St, Cl, Wm, S, C, wf) ==
    /\ streams' = [s \in StreamIds |->
                      IF s \in S
                      THEN (IF ok THEN StreamResolved(St[s], k) ELSE StreamRejected(St[s]))
                      ELSE St[s]]
    /\ calls' = [c \in CallIds |->
                    IF c \in C
                    THEN (IF ok THEN CallResolved(Cl[c], k, W[k]) ELSE CallRejected(Cl[c]))
                    ELSE Cl[c]]
    /\ warm' = IF wf
               THEN (IF ok THEN WarmResolved(Wm, k, W[k]) ELSE WarmRejected(Wm))
               ELSE Wm
    /\ wrappers' =
          IF ok
          THEN [W EXCEPT ![k].message =
                             @ \cup {Listener("sse", s) : s \in S}
                               \cup {Listener("post", c) :
                                        c \in {x \in C : ~IsNotification(Cl[x])}}
                               \cup (IF wf THEN {Listener("warm", 1)} ELSE {}),
                         ![k].error = @ \cup S]
          ELSE W

\* The callers suspend on the creation of wrapper k.
Await(k, W, St, Cl, Wm, S, C, wf) ==
    /\ streams' = [s \in StreamIds |->
                      IF s \in S THEN [St[s] EXCEPT !.pc = "awaitWrapper", !.awaits = k]
                      ELSE St[s]]
    /\ calls' = [c \in CallIds |->
                    IF c \in C THEN [Cl[c] EXCEPT !.pc = "awaitWrapper", !.awaits = k]
                    ELSE Cl[c]]
    /\ warm' = IF wf THEN [Wm EXCEPT !.pc = "awaitWrapper", !.awaits = k] ELSE Wm
    /\ wrappers' = W

\* ------------------------------------------- single-instance coordinator
\* a finally that clears the marker only when the creation succeeded
FinallyOnSuccess(ok) == IF ok THEN 0 ELSE wrapperCreationPromise

\* wrapperCreationPromise after the creator's try/finally: index.ts:61-65
Finally(ok) == 0

\* a coordinator that does not look at the marker
NoCreationInProgress == FALSE

\* the test of index.ts:43
CreationInProgress == wrapperCreationPromise # 0

\* globalMCPWrapper assigned before start() is awaited
GlobalBeforeStart(k, ok) == k

\* globalMCPWrapper once start() of wrapper k settled: assigned after the
\* await, so only when start() succeeded: index.ts:55-56
GlobalAfterStart(k, ok) == IF ok THEN k ELSE globalMCPWrapper

\* getOrCreateMCPWrapper, index.ts:36-66, called by the callers S, C, wf.
GetOrCreateMCPWrapper(outcome, St, Cl, Wm, S, C, wf) ==
    IF globalMCPWrapper # 0 /\ isRunning(wrappers[globalMCPWrapper])
    THEN /\ Deliver(globalMCPWrapper, TRUE, wrappers, St, Cl, Wm, S, C, wf)
         /\ UNCHANGED <<globalMCPWrapper, wrapperCreationPromise, nWrappers>>
    ELSE IF CreationInProgress
    THEN /\ IF wrappers[wrapperCreationPromise].start = "pending"
            THEN Await(wrapperCreationPromise, wrappers, St, Cl, Wm, S, C, wf)
            ELSE Deliver(wrapperCreationPromise,
                         wrappers[wrapperCreationPromise].start = "resolved",
                         wrappers, St, Cl, Wm, S, C, wf)
         /\ UNCHANGED <<globalMCPWrapper, wrapperCreationPromise, nWrappers>>
    ELSE /\ nWrappers < MaxWrappers
         /\ nWrappers' = nWrappers + 1
         /\ wrapperCreationPromise' = nWrappers + 1
         /\ Await(nWrappers + 1,
                  [wrappers EXCEPT ![nWrappers + 1] = Spawn(@, outcome)],
                  St, Cl, Wm, S, C, wf)
         /\ UNCHANGED globalMCPWrapper

\* callers suspended on the creation of wrapper k
StreamsAwaiting(k) == {s \in StreamIds : streams[s].pc = "awaitWrapper" /\ streams[s].awaits = k}
CallsAwaiting(k) == {c \in CallIds : calls[c].pc = "awaitWrapper" /\ calls[c].awaits = k}
WarmAwaiting(k) == warm.pc = "awaitWrapper" /\ warm.awaits = k

\* start() of wrapper k settled with ok; W holds the wrappers after the
\* callback that settled it.  The async function of index.ts:49-59 resumes
\* (globalMCPWrapper = wrapper on success), the creator's finally runs and
\* every caller awaiting the creation resumes.
Settle(k, ok, W) ==
    /\ globalMCPWrapper' = GlobalAfterStart(k, ok)
    /\ wrapperCreationPromise' = Finally(ok)
    /\ Deliver(k, ok, W, streams, calls, warm,
               StreamsAwaiting(k), CallsAwaiting(k), WarmAwaiting(k))
    /\ UNCHANGED nWrappers

\* ------------------------------------------------------- correlation bridge
\* a handler that takes the next message, whatever its id
MatchesAnything(cl, m) == TRUE

\* the test of the POST handler: index.ts:256
HandlerMatches(cl, m) == m.id = cl.id

\* resolve(response) of the POST promise and the continuation res.json:
\* only a pending promise settles
Resolve(cl, m) ==
    IF cl.pc = "waiting"
    THEN [cl EXCEPT !.pc = "done", !.status = 200, !.outcome = "resolved", !.result = m]
    ELSE cl

\* reject(...) of the POST promise and the catch block: index.ts:279-286
Reject(cl, why) ==
    IF cl.pc = "waiting"
    THEN [cl EXCEPT !.pc = "done", !.status = 500, !.outcome = why]
    ELSE cl

\* a handler that does not clear the timer
HandlerKeepsTimer(cl, m) == IF m.id = cl.id THEN Resolve(cl, m) ELSE cl

\* handler of POST, called with message m: index.ts:254-261
Handler(cl, m) ==
    IF HandlerMatches(cl, m) THEN Resolve([cl EXCEPT !.timer = FALSE], m) ELSE cl

\* a handler that does not remove itself
HandlerStays(L, c, cl, m) == L

\* the message listeners the handler of POST c leaves, called with m
HandlerListeners(L, c, cl, m) ==
    IF HandlerMatches(cl, m) THEN L \ {Listener("post", c)} ELSE L

\* a timer callback that does not reject
TimeoutWithoutReject(cl) == [cl EXCEPT !.timer = FALSE]

\* the 30 s timer callback of POST: index.ts:248-252
TimeoutFired(cl) == Reject([cl EXCEPT !.timer = FALSE], "timeout")

\* a timer callback that does not remove the listener
TimeoutKeepsListener(L, c) == L

\* a timer callback that removes the handlers of all POSTs
TimeoutRemovesAll(L, c) == {l \in L : l.kind # "post"}

\* the message listeners the timer callback of POST c leaves
TimeoutListeners(L, c) == L \ {Listener("post", c)}

\* an onMessage that forwards every message
OnMessageForwardsAll(st, m) == [st EXCEPT !.log = Write(st, Event("message", m))]

\* onMessage of a stream, called with message m: index.ts:134-148 (the text
\* added to a 'Not Found' error message is not part of the reduced message)
OnMessage(st, m) ==
    IF m.id # NoId THEN st ELSE [st EXCEPT !.log = Write(st, Event("message", m))]

\* handler of warm-up request n, called with m: index.ts:306-312, 330-336.
\* Resolving the first request sends the second one.
WarmHandler(wm, n, m, W) ==
    IF m.id # WarmupId(n) THEN wm
    ELSE IF n = 1
    THEN IF wm.pc # "awaitInit" THEN [wm EXCEPT !.timer1 = FALSE]
         ELSE IF sendMessageThrows(W)
         THEN [wm EXCEPT !.timer1 = FALSE, !.timer2 = TRUE, !.pc = "failed"]
         ELSE [wm EXCEPT !.timer1 = FALSE, !.timer2 = TRUE, !.pc = "awaitTools"]
    ELSE IF wm.pc # "awaitTools" THEN [wm EXCEPT !.timer2 = FALSE]
         ELSE [wm EXCEPT !.timer2 = FALSE, !.pc = "done"]

\* the message listeners the warm-up handlers leave, called with m
WarmListeners(L, wm, m) ==
    IF m.id = WarmupId(1) /\ Listener("warm", 1) \in L
    THEN (L \ {Listener("warm", 1)})
         \cup (IF wm.pc = "awaitInit" THEN {Listener("warm", 2)} ELSE {})
    ELSE IF m.id = WarmupId(2) THEN L \ {Listener("warm", 2)}
    ELSE L

\* the 15 s timer callback of warm-up request n: index.ts:305, 329
WarmTimeoutFired(wm, n) ==
    IF n = 1
    THEN [wm EXCEPT !.timer1 = FALSE, !.pc = IF @ = "awaitInit" THEN "failed" ELSE @]
    ELSE [wm EXCEPT !.timer2 = FALSE, !.pc = IF @ = "awaitTools" THEN "failed" ELSE @]

\* req.on('close') of a stream: index.ts:157-164
CloseFired(st) ==
    [st EXCEPT !.pc = "closed", !.clientGone = TRUE, !.keepalive = FALSE,
               !.session = FALSE]

\* auth answers 401 and the handler is not called: index.ts:80-91
StreamUnauthorized(st) == [st EXCEPT !.pc = "unauthorized"]
CallUnauthorized(cl) ==
    [cl EXCEPT !.pc = "done", !.status = 401, !.outcome = "unauthorized"]

\* a GET /sse handler that does not announce the endpoint
StreamAcceptedSilently(st) == [st EXCEPT !.session = TRUE, !.keepalive = TRUE]

\* GET /sse before the wrapper is asked for: session entry, headers, endpoint
\* event, keepalive interval: index.ts:107-129
StreamAccepted(st) ==
    [st EXCEPT !.session = TRUE, !.keepalive = TRUE,
               !.log = <<Event("endpoint", NoMsg)>>]

\* the callback of the keepalive interval: index.ts:121-129
KeepaliveFired(st) == [st EXCEPT !.log = Write(st, Event("keepalive", NoMsg))]

\* --------------------------------------------- parameter reconciliation
\* the test JavaScript makes of an argument in a condition (args.project)
Truthy(v) == v \notin {"absent", "empty"}

\* one rename of fixParams: index.ts:182-185, 188-191, 194-197
Rename(args, alternate, expected) ==
    IF Truthy(args[alternate]) /\ ~Truthy(args[expected])
    THEN [args EXCEPT ![expected] = args[alternate], ![alternate] = "absent"]
    ELSE args

\* fixParams(msg): index.ts:176-200.  The assignment of line 198 throws a
\* TypeError when msg.params is undefined.
fixParams(msg) ==
    IF msg.method # "tools/call" THEN [done |-> TRUE, threw |-> FALSE, msg |-> msg]
    ELSE LET args == IF msg.params = "arguments" THEN msg.arguments ELSE NoArguments
             fixed == Rename(Rename(Rename(args, "project", "project_id"),
                                    "branch", "ref"),
                             "path", "file_path")
         IN IF msg.params = "absent"
            THEN [done |-> TRUE, threw |-> TRUE, msg |-> msg]
            ELSE [done |-> TRUE, threw |-> FALSE,
                  msg |-> [msg EXCEPT !.params = "arguments", !.arguments = fixed]]

\* GET /health: index.ts:98-100
health ==
    [status |-> "ok",
     mcpRunning |-> globalMCPWrapper # 0 /\ isRunning(wrappers[globalMCPWrapper])]

\* ------------------------------------------------------------------ actions
Listening == warm.pc # "init"

\* app.listen callback: index.ts:294-300
Listen ==
    /\ warm.pc = "init"
    /\ \E outcome \in {"alive", "spawnError"} :
          GetOrCreateMCPWrapper(outcome, streams, calls, warm, {}, {}, TRUE)
    /\ UNCHANGED <<codec, emitter, supervisor, shim, diag, registry>>

\* GET /sse with Authorization header h, up to the 401 of auth or to
\* await getOrCreateMCPWrapper(): index.ts:103-132
OpenStream(s, h) ==
    /\ Listening
    /\ streams[s].pc = "idle"
    /\ IF s = 1 THEN TRUE ELSE streams[s - 1].pc # "idle"
    /\ IF AuthPasses(h)
       THEN \E outcome \in {"alive", "spawnError"} :
               GetOrCreateMCPWrapper(
                   outcome, [streams EXCEPT ![s] = StreamAccepted(@)],
                   calls, warm, {s}, {}, FALSE)
       ELSE /\ streams' = [streams EXCEPT ![s] = StreamUnauthorized(@)]
            /\ UNCHANGED <<globalMCPWrapper, wrapperCreationPromise, nWrappers,
                           wrappers, calls, warm>>
    /\ UNCHANGED <<codec, emitter, supervisor, shim, diag, registry>>

\* req.body of a POST, reduced to what the handler reads before it asks for
\* the wrapper: jsonrpc, method ('tools/call', another method, or "none" for
\* a response) and, for a tools/call, whether params is present (the handler
\* reads params of no other message, index.ts:215); msg.id is given apart
PostBodies ==
    {b \in [jsonrpc : {"2.0", "1.0"}, method : {"tools/call", "tools/list", "none"},
            params : {"absent", "bare"}] :
        b.method # "tools/call" => b.params = "absent"}

\* the header of a client that knows the secret, and the body of a
\* tools/list message
Authorized == [present |-> TRUE, scheme |-> "Bearer ", token |-> MCP_AUTH_SECRET]
ToolsList == [jsonrpc |-> "2.0", method |-> "tools/list", params |-> "absent"]

\* the body as fixParams reads it
AsMsg(b) == [method |-> b.method, params |-> b.params, arguments |-> NoArguments]

\* index.ts:215-217 throws: the TypeError of fixParams is thrown before the
\* try of index.ts:232
PostThrows(b) == b.method = "tools/call" /\ fixParams(AsMsg(b)).threw

\* the test of index.ts:225
InvalidJsonRpc(b) == b.jsonrpc # "2.0"

\* the async handler rejected outside its try block: Express 4 does not
\* observe the promise of a handler, so neither the catch of index.ts:279
\* nor the error handler of index.ts:290 runs and no response is sent
CallThrew(cl) == [cl EXCEPT !.pc = "threw", !.outcome = "threw"]

\* index.ts:225-230
CallInvalid(cl) == [cl EXCEPT !.pc = "done", !.status = 400, !.outcome = "invalid"]

\* POST /sse/messages with Authorization header h and body b of id i, up to
\* the 401 of auth, the TypeError of fixParams, the 400 of the jsonrpc test,
\* or to the request being sent or answered: index.ts:203-265
Submit(c, i, h, b) ==
    /\ Listening
    /\ calls[c].pc = "idle"
    /\ IF c = 1 THEN TRUE ELSE calls[c - 1].pc # "idle"
    /\ IF AuthPasses(h) /\ ~PostThrows(b) /\ ~InvalidJsonRpc(b)
       THEN \E outcome \in {"alive", "spawnError"} :
               GetOrCreateMCPWrapper(
                   outcome, streams,
                   [calls EXCEPT ![c].id = i,
                                 ![c].after =
                                     {d \in CallIds : calls[d].outcome = "timeout"}],
                   warm, {}, {c}, FALSE)
       ELSE /\ calls' = [calls EXCEPT ![c] =
                            IF ~AuthPasses(h) THEN CallUnauthorized(@)
                            ELSE IF PostThrows(b) THEN CallThrew(@)
                            ELSE CallInvalid(@)]
            /\ UNCHANGED <<globalMCPWrapper, wrapperCreationPromise, nWrappers,
                           wrappers, streams, warm>>
    /\ UNCHANGED <<codec, emitter, supervisor, shim, diag, registry>>

\* the readiness timer of wrapper k fires: mcp-wrapper.ts:121-128.  A failed
\* spawn reports its 'error' on the next tick, before any timer.
ReadyTimer(k) ==
    /\ wrappers[k].timer
    /\ wrappers[k].child # "spawnError"
    /\ IF wrappers[k].start = "pending"
       THEN Settle(k, ReadyTest(wrappers[k]), [wrappers EXCEPT ![k] = ReadyFired(@)])
       ELSE /\ wrappers' = [wrappers EXCEPT ![k] = ReadyFired(@)]
            /\ UNCHANGED <<globalMCPWrapper, wrapperCreationPromise, nWrappers,
                           streams, calls, warm>>
    /\ UNCHANGED <<codec, emitter, supervisor, shim, diag, registry>>

\* the child of wrapper k emits 'error' (spawn failure): mcp-wrapper.ts:115-118
ProcessError(k) ==
    /\ wrappers[k].child = "spawnError"
    /\ IF wrappers[k].start = "pending"
       THEN Settle(k, FALSE, [wrappers EXCEPT ![k] = ErrorFired(@)])
       ELSE /\ wrappers' = [wrappers EXCEPT ![k] = ErrorFired(@)]
            /\ UNCHANGED <<globalMCPWrapper, wrapperCreationPromise, nWrappers,
                           streams, calls, warm>>
    /\ UNCHANGED <<codec, emitter, supervisor, shim, diag, registry>>

\* the child of wrapper k exits: mcp-wrapper.ts:107-112
ProcessExit(k) ==
    /\ wrappers[k].child = "alive"
    /\ wrappers' = [wrappers EXCEPT ![k] = ExitFired(@)]
    /\ UNCHANGED <<globalMCPWrapper, wrapperCreationPromise, nWrappers, streams,
                   calls, warm>>
    /\ UNCHANGED <<codec, emitter, supervisor, shim, diag, registry>>

\* observation: m is a response carrying the id of a request of wrapper k
\* whose HTTP response has been sent
IsLateReply(cl, k, m) ==
    cl.pc = "done" /\ cl.wrapper = k /\ cl.id # NoId /\ m.id = cl.id /\ ~m.method

\* observation: a process emitted m while stream st was open
Observed(st, m) ==
    IF m.id = NoId /\ st.pc = "open" /\ ~st.clientGone
    THEN [st EXCEPT !.emitted = @ + 1]
    ELSE st

PostListeners(k) == {c \in CallIds : Listener("post", c) \in wrappers[k].message}
SseListeners(k) == {s \in StreamIds : Listener("sse", s) \in wrappers[k].message}

RECURSIVE AfterHandlers(_, _, _)
\* the message listeners of a wrapper after the handlers of the POSTs in C ran
AfterHandlers(L, C, m) ==
    IF C = {} THEN L
    ELSE LET c == CHOOSE x \in C : TRUE
         IN AfterHandlers(HandlerListeners(L, c, calls[c], m), C \ {c}, m)

\* the child of wrapper k writes the complete line of message m to its stdout
\* and handleStdoutData emits it (mcp-wrapper.ts:149-150); every message
\* listener registered at that moment is called.  The child is free to write
\* any message at any time.  'exit' is emitted while the stdio streams may
\* still be open, and nothing removes the 'data' listener of
\* mcp-wrapper.ts:59 at 'exit': what the child wrote last, or what a process
\* started by npx writes into the inherited pipe, is delivered after the
\* 'exit' event.  Of that output the model keeps the messages that a POST
\* still waiting on the wrapper matches.  A message without id is written
\* only while the open streams have room for it in their logs (MaxLog).
ProcessStdout(k, m) ==
    /\ \/ wrappers[k].child = "alive"
       \/ /\ wrappers[k].child = "exited"
          /\ \E c \in PostListeners(k) : HandlerMatches(calls[c], m)
    /\ m.id = NoId => \A s \in SseListeners(k) : Len(streams[s].log) < MaxLog
    /\ m.id = NoId => \A s \in StreamIds : streams[s].emitted + 1 < MaxLog
    /\ calls' = [c \in CallIds |->
                    IF c \in PostListeners(k) THEN Handler(calls[c], m)
                    ELSE IF IsLateReply(calls[c], k, m)
                    THEN [calls[c] EXCEPT !.lateReply = TRUE]
                    ELSE calls[c]]
    /\ streams' = [s \in StreamIds |->
                      Observed(IF s \in SseListeners(k) THEN OnMessage(streams[s], m)
                               ELSE streams[s], m)]
    /\ warm' = IF Listener("warm", 1) \in wrappers[k].message
               THEN WarmHandler(warm, 1, m, wrappers[k])
               ELSE IF Listener("warm", 2) \in wrappers[k].message
               THEN WarmHandler(warm, 2, m, wrappers[k])
               ELSE warm
    /\ wrappers' = [wrappers EXCEPT ![k].message =
                       WarmListeners(AfterHandlers(@, PostListeners(k), m), warm, m)]
    /\ UNCHANGED <<globalMCPWrapper, wrapperCreationPromise, nWrappers>>
    /\ UNCHANGED <<codec, emitter, supervisor, shim, diag, registry>>

\* the 30 s timer of POST c fires: index.ts:248-252
Timeout(c) ==
    /\ calls[c].timer
    /\ calls' = [calls EXCEPT ![c] = TimeoutFired(@)]
    /\ wrappers' = [wrappers EXCEPT ![calls[c].wrapper].message = TimeoutListeners(@, c)]
    /\ UNCHANGED <<globalMCPWrapper, wrapperCreationPromise, nWrappers, streams, warm>>
    /\ UNCHANGED <<codec, emitter, supervisor, shim, diag, registry>>

\* the 15 s timer of warm-up request n fires
WarmTimeout(n) ==
    /\ IF n = 1 THEN warm.timer1 ELSE warm.timer2
    /\ warm' = WarmTimeoutFired(warm, n)
    /\ UNCHANGED <<globalMCPWrapper, wrapperCreationPromise, nWrappers, wrappers,
                   streams, calls>>
    /\ UNCHANGED <<codec, emitter, supervisor, shim, diag, registry>>

\* the client of stream s disconnects; 'close' reaches the handler only if
\* it was registered before: index.ts:157
ClientClose(s) ==
    /\ streams[s].pc \in {"awaitWrapper", "open"}
    /\ ~streams[s].clientGone
    /\ IF streams[s].pc = "open"
       THEN /\ streams' = [streams EXCEPT ![s] = CloseFired(@)]
            /\ wrappers' = [wrappers EXCEPT
                               ![streams[s].wrapper].message = @ \ {Listener("sse", s)},
                               ![streams[s].wrapper].error = @ \ {s}]
       ELSE /\ streams' = [streams EXCEPT ![s].clientGone = TRUE]
            /\ UNCHANGED wrappers
    /\ UNCHANGED <<globalMCPWrapper, wrapperCreationPromise, nWrappers, calls, warm>>
    /\ UNCHANGED <<codec, emitter, supervisor, shim, diag, registry>>

\* the keepalive interval of stream s fires: index.ts:121-129
Keepalive(s) ==
    /\ streams[s].keepalive
    /\ Len(streams[s].log) < MaxLog
    /\ streams' = [streams EXCEPT ![s] = KeepaliveFired(@)]
    /\ UNCHANGED <<globalMCPWrapper, wrapperCreationPromise, nWrappers, wrappers,
                   calls, warm>>
    /\ UNCHANGED <<codec, emitter, supervisor, shim, diag, registry>>

\* Of a body that passes fixParams and the jsonrpc test the handler reads
\* nothing but msg.id, and of a request that auth answers it reads nothing at
\* all: one body stands for the others there.
Next ==
    \/ Listen
    \/ \E s \in StreamIds, h \in Headers : OpenStream(s, h)
    \/ \E c \in CallIds, i \in ClientIds \cup {NoId} :
          Submit(c, i, Authorized, ToolsList)
    \/ \E c \in CallIds, b \in PostBodies :
          (PostThrows(b) \/ InvalidJsonRpc(b)) /\ Submit(c, NoId, Authorized, b)
    \/ \E c \in CallIds, h \in Headers \ {Authorized} : Submit(c, NoId, h, ToolsList)
    \/ \E k \in WrapperIds : ReadyTimer(k)
    \/ \E k \in WrapperIds : ProcessError(k)
    \/ \E k \in WrapperIds : ProcessExit(k)
    \/ \E k \in WrapperIds, m \in MCPMessage : ProcessStdout(k, m)
    \/ \E c \in CallIds : Timeout(c)
    \/ \E n \in 1..2 : WarmTimeout(n)
    \/ \E s \in StreamIds : ClientClose(s)
    \/ \E s \in StreamIds : Keepalive(s)

Spec == Init /\ [][Next]_vars

\* Node fires every timer that is armed: the 30 s timer of a POST
\* (index.ts:248-252) runs its callback
SpecTimers == Spec /\ \A c \in CallIds : WF_vars(Timeout(c))

\* Node fires the readiness timer of every start() (mcp-wrapper.ts:121-128)
\* and delivers the 'error' of a spawn that failed (mcp-wrapper.ts:115-118)
SpecStartUp ==
    /\ Spec
    /\ \A k \in WrapperIds : WF_vars(ReadyTimer(k))
    /\ \A k \in WrapperIds : WF_vars(ProcessError(k))

\* ------------------------------------------------ stdout codec (supervisor)
\* The bytes the child writes, reduced to six values: '"' (22), '1' (31),
\* space (20), newline (0A) and the two bytes of a two-byte UTF-8 character
\* (C3 A9, e acute).
Bytes == {"22", "31", "20", "0A", "C3", "A9"}

\* the character of an ASCII byte
Ascii(b) ==
    CASE b = "22" -> "quote"
      [] b = "31" -> "1"
      [] b = "20" -> "space"
      [] b = "0A" -> "newline"

RECURSIVE toString(_)
\* data.toString(): UTF-8 decoding of one Buffer on its own; a byte that is
\* not part of a complete sequence inside the Buffer becomes U+FFFD
toString(data) ==
    IF data = <<>> THEN <<>>
    ELSE IF Head(data) = "C3"
    THEN IF Len(data) >= 2 /\ data[2] = "A9"
         THEN <<"e-acute">> \o toString(SubSeq(data, 3, Len(data)))
         ELSE <<"U+FFFD">> \o toString(Tail(data))
    ELSE IF Head(data) = "A9"
    THEN <<"U+FFFD">> \o toString(Tail(data))
    ELSE <<Ascii(Head(data))>> \o toString(Tail(data))

RECURSIVE split(_)
\* text.split('\n')
split(text) ==
    IF \A i \in 1..Len(text) : text[i] # "newline" THEN <<text>>
    ELSE LET i == CHOOSE j \in 1..Len(text) :
                     text[j] = "newline" /\ \A l \in 1..(j - 1) : text[l] # "newline"
         IN <<SubSeq(text, 1, i - 1)>> \o split(SubSeq(text, i + 1, Len(text)))

RECURSIVE trimStart(_)
trimStart(line) ==
    IF line # <<>> /\ Head(line) = "space" THEN trimStart(Tail(line)) ELSE line

RECURSIVE trimEnd(_)
trimEnd(line) ==
    IF line # <<>> /\ line[Len(line)] = "space"
    THEN trimEnd(SubSeq(line, 1, Len(line) - 1))
    ELSE line

\* line.trim()
trim(line) == trimEnd(trimStart(line))

\* the JSON texts over these characters: a number (digits) or a string
\* (quote, characters other than quote, quote), white space around it allowed
IsNumber(v) == v # <<>> /\ \A i \in 1..Len(v) : v[i] = "1"
IsString(v) ==
    /\ Len(v) >= 2
    /\ v[1] = "quote"
    /\ v[Len(v)] = "quote"
    /\ \A i \in 2..(Len(v) - 1) : v[i] # "quote"

\* JSON.parse(line) throws
JSONParseThrows(line) == ~(IsNumber(trim(line)) \/ IsString(trim(line)))

\* JSON.parse(line), the value written as its text without the white space
JSONParse(line) == trim(line)

RECURSIVE ProcessLinesUntilBad(_)
\* a loop that a parse failure ends
ProcessLinesUntilBad(lines) ==
    IF lines = <<>> THEN <<>>
    ELSE IF trim(Head(lines)) = <<>> THEN ProcessLinesUntilBad(Tail(lines))
    ELSE IF JSONParseThrows(Head(lines)) THEN <<>>
    ELSE <<JSONParse(Head(lines))>> \o ProcessLinesUntilBad(Tail(lines))

RECURSIVE ProcessLines(_)
\* the loop over the complete lines, mcp-wrapper.ts:146-155: the messages
\* emitted, in order; a line that does not parse is logged and skipped
ProcessLines(lines) ==
    IF lines = <<>> THEN <<>>
    ELSE (IF trim(Head(lines)) # <<>> /\ ~JSONParseThrows(Head(lines))
          THEN <<JSONParse(Head(lines))>>
          ELSE <<>>) \o ProcessLines(Tail(lines))

\* handleStdoutData(data) with this.messageBuffer = buffer: the new buffer,
\* the messages emitted and the number of error events emitted
handleStdoutData(buffer, data) ==
    LET lines == split(buffer \o toString(data))
    IN [messageBuffer |-> lines[Len(lines)],
        emitted |-> ProcessLines(SubSeq(lines, 1, Len(lines) - 1)),
        errors |-> 0]

\* the byte streams of at most MaxBytes bytes
ByteStreams == UNION {[1..n -> Bytes] : n \in 0..MaxBytes}

\* a byte stream delivered in one 'data' event or in two
Chunkings(written) ==
    {<<written>>}
    \cup {<<SubSeq(written, 1, i), SubSeq(written, i + 1, Len(written))>> :
             i \in 1..(Len(written) - 1)}

StdoutInit ==
    /\ BridgeInit
    /\ EmitterInit
    /\ SupervisorInit
    /\ ShimInit
    /\ DiagInit
    /\ RegistryInit
    /\ \E written \in ByteStreams : stdout \in Chunkings(written)
    /\ fed = 0
    /\ messageBuffer = <<>>
    /\ emitted = <<>>
    /\ errorEvents = 0

\* the next 'data' event of the child's stdout: mcp-wrapper.ts:59-61
StdoutData ==
    /\ fed < Len(stdout)
    /\ LET r == handleStdoutData(messageBuffer, stdout[fed + 1])
       IN /\ messageBuffer' = r.messageBuffer
          /\ emitted' = emitted \o r.emitted
          /\ errorEvents' = errorEvents + r.errors
    /\ fed' = fed + 1
    /\ UNCHANGED <<stdout, bridge, emitter, supervisor, shim, diag, registry>>

SpecStdout == StdoutInit /\ [][StdoutData]_vars

\* ------------------------------------------- MCPWrapper under any caller
\* One MCPWrapper whose caller calls start(), sendMessage() and stop() in any
\* order, at any time (index.ts is one such caller, SessionManager another).
ChildIds == 1..MaxChildren
StopIds == 1..MaxStops

\* JSON.stringify(message) of the messages the caller sends
Payloads == {"a", "b"}

\* the fields of the wrapper, as the operators of the supervisor read them
Wrapper ==
    [process |-> IF this.process = 0 THEN "null" ELSE "child",
     killed |-> IF this.process = 0 THEN FALSE ELSE children[this.process].killed,
     isInitialized |-> this.isInitialized]

Spawned == {n \in ChildIds : children[n].state # "none"}

\* child.kill(signal): a live process receives the signal and killed is set;
\* a child that is not running has no handle and kill() returns false
Kill(c, signal) ==
    IF c.state = "alive"
    THEN [c EXCEPT !.killed = TRUE, !.sigkill = @ \/ signal = "SIGKILL"]
    ELSE c

\* JSON.stringify(message) + '\n': mcp-wrapper.ts:166
Line(payload) == <<payload, "newline">>

\* this.process.stdin.write(line), mcp-wrapper.ts:167: the pipe takes the
\* first k segments at once when nothing is queued, the rest is queued behind
\* what is; the stdin of a child that is not running is destroyed and takes
\* nothing
StdinWrite(c, line, k) ==
    IF c.state # "alive" THEN c
    ELSE IF c.queue # <<>> THEN [c EXCEPT !.queue = @ \o line]
    ELSE [c EXCEPT !.pipe = @ \o SubSeq(line, 1, k),
                   !.queue = SubSeq(line, k + 1, Len(line))]

\* a start() that does not look at this.process
StartNeverThrows == FALSE

\* start() throws 'MCP server already running': mcp-wrapper.ts:40-42
StartThrows == this.process # 0

\* start(): mcp-wrapper.ts:39-130, up to the return of the promise executor
SupStart(outcome) ==
    /\ IF StartThrows
       THEN /\ returned' = "start: MCP server already running"
            /\ UNCHANGED <<this, children, starts, readyTimers, stops, sendLog>>
       ELSE /\ Cardinality(Spawned) < MaxChildren
            /\ LET n == Cardinality(Spawned) + 1
               IN /\ this' = [this EXCEPT !.process = n]
                  /\ children' = [children EXCEPT ![n].state = outcome]
                  /\ starts' = [starts EXCEPT ![n] = "pending"]
                  /\ readyTimers' = readyTimers \cup {n}
            /\ returned' = "start: pending"
            /\ UNCHANGED <<stops, sendLog>>
    /\ UNCHANGED <<bridge, codec, emitter, shim, diag, registry>>

\* the readiness timer armed by the n-th start() fires: mcp-wrapper.ts:121-128.
\* Timers of the same delay fire in the order they were armed, and a failed
\* spawn reports its 'error' before any timer.
SupReadyTimer(n) ==
    /\ n \in readyTimers
    /\ \A i \in readyTimers : n <= i
    /\ \A i \in ChildIds : children[i].state # "spawnError"
    /\ readyTimers' = readyTimers \ {n}
    /\ this' = [this EXCEPT !.isInitialized = IF ReadyTest(Wrapper) THEN TRUE ELSE @]
    /\ starts' = [starts EXCEPT ![n] =
                     IF @ = "pending"
                     THEN (IF ReadyTest(Wrapper) THEN "resolved" ELSE "rejected")
                     ELSE @]
    /\ UNCHANGED <<children, stops, returned, sendLog>>
    /\ UNCHANGED <<bridge, codec, emitter, shim, diag, registry>>

\* child n emits 'error' (spawn failure): mcp-wrapper.ts:115-118
SupProcessError(n) ==
    /\ children[n].state = "spawnError"
    /\ children' = [children EXCEPT ![n].state = "failed"]
    /\ starts' = [starts EXCEPT ![n] = IF @ = "pending" THEN "rejected" ELSE @]
    /\ UNCHANGED <<this, readyTimers, stops, returned, sendLog>>
    /\ UNCHANGED <<bridge, codec, emitter, shim, diag, registry>>

\* an exit handler that leaves isInitialized as it is
ExitKeepsInitialized(t) == [t EXCEPT !.process = 0]

\* the fields after the 'exit' handlers: mcp-wrapper.ts:109-110, 177-178
AfterExit(t) == [process |-> 0, isInitialized |-> FALSE]

\* the once('exit') listener of a stop(), when child n exits:
\* mcp-wrapper.ts:176-180
StopOnExit(st, n) ==
    IF st.state = "pending" /\ st.target = n THEN [st EXCEPT !.state = "resolved"] ELSE st

\* child n exits, by itself or on a signal: mcp-wrapper.ts:107-112, 176-180.
\* What its stdin had queued is discarded.
SupProcessExit(n) ==
    /\ children[n].state = "alive"
    /\ children' = [children EXCEPT ![n].state = "exited", ![n].queue = <<>>]
    /\ this' = AfterExit(this)
    /\ stops' = [j \in StopIds |-> StopOnExit(stops[j], n)]
    /\ UNCHANGED <<starts, readyTimers, returned, sendLog>>
    /\ UNCHANGED <<bridge, codec, emitter, shim, diag, registry>>

\* sendMessage(message): mcp-wrapper.ts:161-168
SupSend(payload, k) ==
    /\ IF sendMessageThrows(Wrapper)
       THEN /\ returned' = "sendMessage: MCP server not running"
            /\ UNCHANGED <<this, children, starts, readyTimers, stops, sendLog>>
       ELSE /\ Len(sendLog) < MaxSends
            /\ children' = [children EXCEPT ![this.process] = StdinWrite(@, Line(payload), k)]
            /\ sendLog' = Append(sendLog, <<this.process, payload>>)
            /\ returned' = "sendMessage: returned"
            /\ UNCHANGED <<this, starts, readyTimers, stops>>
    /\ UNCHANGED <<bridge, codec, emitter, shim, diag, registry>>

\* the pipe takes the next queued segment of the stdin of child n
SupStdinDrain(n) ==
    /\ children[n].state = "alive"
    /\ children[n].queue # <<>>
    /\ children' = [children EXCEPT ![n].pipe = Append(@, Head(children[n].queue)),
                                    ![n].queue = Tail(@)]
    /\ UNCHANGED <<this, starts, readyTimers, stops, returned, sendLog>>
    /\ UNCHANGED <<bridge, codec, emitter, shim, diag, registry>>

\* stop(): mcp-wrapper.ts:173-192, up to the return of the promise executor.
\* before holds the readiness timers pending at the call: they fire before
\* the 5000 ms timer of this stop().
SupStop(j) ==
    /\ stops[j].state = "none"
    /\ IF j = 1 THEN TRUE ELSE stops[j - 1].state # "none"
    /\ IF this.process = 0
       THEN /\ stops' = [stops EXCEPT ![j].state = "resolved"]
            /\ returned' = "stop: resolved"
            /\ UNCHANGED children
       ELSE /\ stops' = [stops EXCEPT ![j] = [state |-> "pending", target |-> this.process,
                                              timer |-> TRUE, before |-> readyTimers]]
            /\ children' = [children EXCEPT ![this.process] = Kill(@, "SIGTERM")]
            /\ returned' = "stop: pending"
    /\ UNCHANGED <<this, starts, readyTimers, sendLog>>
    /\ UNCHANGED <<bridge, codec, emitter, shim, diag, registry>>

\* the body of the 5000 ms timer of stop(): mcp-wrapper.ts:185-189
ForceKill(C, t) == IF t.process # 0 THEN [C EXCEPT ![t.process] = Kill(@, "SIGKILL")] ELSE C

\* the 5000 ms timer of the j-th stop() fires
SupKillTimer(j) ==
    /\ stops[j].timer
    /\ \A i \in StopIds : stops[i].timer => j <= i
    /\ stops[j].before \cap readyTimers = {}
    /\ stops' = [stops EXCEPT ![j].timer = FALSE]
    /\ children' = ForceKill(children, this)
    /\ UNCHANGED <<this, starts, readyTimers, returned, sendLog>>
    /\ UNCHANGED <<bridge, codec, emitter, shim, diag, registry>>

SupervisorNext ==
    \/ \E outcome \in {"alive", "spawnError"} : SupStart(outcome)
    \/ \E n \in ChildIds : SupReadyTimer(n)
    \/ \E n \in ChildIds : SupProcessError(n)
    \/ \E n \in ChildIds : SupProcessExit(n)
    \/ \E payload \in Payloads, k \in 0..2 : SupSend(payload, k)
    \/ \E n \in ChildIds : SupStdinDrain(n)
    \/ \E j \in StopIds : SupStop(j)
    \/ \E j \in StopIds : SupKillTimer(j)

SpecSupervisor == Init /\ [][SupervisorNext]_vars

\* Node runs every timer that is due and delivers every child-process event;
\* a process that received SIGKILL exits
SpecSupervisorFair ==
    /\ SpecSupervisor
    /\ \A n \in ChildIds : WF_vars(SupReadyTimer(n))
    /\ \A n \in ChildIds : WF_vars(SupProcessError(n))
    /\ \A j \in StopIds : WF_vars(SupKillTimer(j))
    /\ \A n \in ChildIds : WF_vars(children[n].sigkill /\ SupProcessExit(n))

\* ------------------------------- parameter reconciliation, one POST body
\* the POST handler up to the jsonrpc test: index.ts:212-217
Reconcile ==
    /\ ~forwarded.done
    /\ forwarded' = IF body.method = "tools/call"
                    THEN fixParams(body)
                    ELSE [done |-> TRUE, threw |-> FALSE, msg |-> body]
    /\ UNCHANGED <<body, bridge, codec, emitter, supervisor, diag, registry>>

ShimStart ==
    /\ BridgeInit
    /\ CodecInit
    /\ EmitterInit
    /\ SupervisorInit
    /\ DiagInit
    /\ RegistryInit
    /\ body \in Bodies
    /\ forwarded = Arrived(body)

SpecFixParams == ShimStart /\ [][Reconcile]_vars

\* ------------------------------------------------ stderr (supervisor)
\* The words a chunk of stderr is made of, separated by single spaces.
Words ==
    {"Listening", "already", "DeprecationWarning", "WARN", "Error", "failed",
     "unable", "to", "npm"}

\* text.toLowerCase(), word by word
toLowerCase(word) ==
    CASE word = "Listening" -> "listening"
      [] word = "DeprecationWarning" -> "deprecationwarning"
      [] word = "WARN" -> "warn"
      [] word = "Error" -> "error"
      [] OTHER -> word

\* the words of the keywords of mcp-wrapper.ts:71-95 that occur inside a
\* lower-case word
Parts(word) ==
    CASE word = "listening" -> {"listening"}
      [] word = "already" -> {"ready"}
      [] word = "deprecationwarning" -> {"deprecation", "warn"}
      [] word = "warn" -> {"warn"}
      [] word = "error" -> {"error"}
      [] word = "failed" -> {"failed"}
      [] word = "unable" -> {"unable"}
      [] word = "to" -> {"to"}
      [] OTHER -> {}

\* lowerText.includes(keyword), the keyword given as its words
includes(lowerText, keyword) ==
    \E i \in 1..(Len(lowerText) - Len(keyword) + 1) :
       \A j \in 1..Len(keyword) : keyword[j] \in Parts(lowerText[i + j - 1])

\* the keywords of the three tests: mcp-wrapper.ts:71-76, 82-84, 90-95
InfoKeywords ==
    {<<"running", "on">>, <<"starting">>, <<"listening">>, <<"server", "started">>,
     <<"ready">>, <<"initialized">>}
WarningKeywords == {<<"warn">>, <<"deprecated">>, <<"deprecation">>}
ErrorKeywords ==
    {<<"error">>, <<"failed">>, <<"exception">>, <<"fatal">>, <<"cannot">>,
     <<"unable", "to">>}
IncludesAny(lowerText, keywords) == \E keyword \in keywords : includes(lowerText, keyword)

\* a handler that looks for the error keywords first
ErrorsFirst(text) ==
    LET lowerText == [i \in 1..Len(text) |-> toLowerCase(text[i])]
    IN IF IncludesAny(lowerText, ErrorKeywords) THEN "error: MCP Server Error"
       ELSE IF IncludesAny(lowerText, InfoKeywords) THEN "log: MCP Server Info"
       ELSE IF IncludesAny(lowerText, WarningKeywords) THEN "warn: MCP Server Warning"
       ELSE "log: MCP Server Debug"

\* the console call the handler makes for a chunk: mcp-wrapper.ts:64-103
Categorize(text) ==
    LET lowerText == [i \in 1..Len(text) |-> toLowerCase(text[i])]
    IN IF IncludesAny(lowerText, InfoKeywords) THEN "log: MCP Server Info"
       ELSE IF IncludesAny(lowerText, WarningKeywords) THEN "warn: MCP Server Warning"
       ELSE IF IncludesAny(lowerText, ErrorKeywords) THEN "error: MCP Server Error"
       ELSE "log: MCP Server Debug"

\* the 'data' handler of the child's stderr: mcp-wrapper.ts:64-104
StderrData ==
    /\ logged = "none"
    /\ logged' = Categorize(stderrData)
    /\ stderrErrors' = IF Categorize(stderrData) = "error: MCP Server Error"
                       THEN stderrErrors + 1
                       ELSE stderrErrors
    /\ UNCHANGED <<stderrData, bridge, codec, emitter, supervisor, shim, registry>>

\* the child wrote any chunk of at most MaxWords words
StderrStart ==
    /\ BridgeInit
    /\ CodecInit
    /\ EmitterInit
    /\ SupervisorInit
    /\ ShimInit
    /\ RegistryInit
    /\ stderrData \in UNION {[1..n -> Words] : n \in 0..MaxWords}
    /\ logged = "none"
    /\ stderrErrors = 0

SpecStderr == StderrStart /\ [][StderrData]_vars

\* ------------------------------------------- listener list (supervisor)
\* events.defaultMaxListeners of Node
DefaultMaxListeners == 10

\* wrapper.getMaxListeners(): the constructor calls super() and nothing else
\* (mcp-wrapper.ts:29-34), so the limit of the wrapper is Node's default
getMaxListeners == DefaultMaxListeners

\* the warning flag after wrapper.on('message', ...) made the list n long:
\* Node warns once, when the list grows beyond the limit
WarnedAfterOn(n) == warned \/ n > getMaxListeners

\* a POST registers its handler: index.ts:263
HandlerOn ==
    /\ ~unhandled
    /\ handlers < MaxSubmissions
    /\ handlers' = handlers + 1
    /\ warned' = WarnedAfterOn(handlers + 1 + onMessages)
    /\ UNCHANGED <<onMessages, unhandled, bridge, codec, supervisor, shim, diag, registry>>

\* the handler removes itself on its reply, or the timer removes it:
\* index.ts:258, index.ts:250
HandlerOff ==
    /\ ~unhandled
    /\ handlers > 0
    /\ handlers' = handlers - 1
    /\ UNCHANGED <<onMessages, warned, unhandled, bridge, codec, supervisor, shim, diag,
                   registry>>

\* a stream attaches onMessage and onError: index.ts:154-155
OnMessageOn ==
    /\ ~unhandled
    /\ onMessages < MaxStreams
    /\ onMessages' = onMessages + 1
    /\ warned' = WarnedAfterOn(handlers + onMessages + 1)
    /\ UNCHANGED <<handlers, unhandled, bridge, codec, supervisor, shim, diag, registry>>

\* the close handler of a stream detaches onMessage and onError:
\* index.ts:162-163
OnMessageOff ==
    /\ ~unhandled
    /\ onMessages > 0
    /\ onMessages' = onMessages - 1
    /\ UNCHANGED <<handlers, warned, unhandled, bridge, codec, supervisor, shim, diag,
                   registry>>

\* wrapper.listenerCount('error'): the only 'error' listeners of the bridge
\* are the onError of the streams, attached and detached with their
\* onMessage; getOrCreateMCPWrapper (index.ts:36-66) and the warm-up
\* (index.ts:294-351) attach none
ErrorListeners == onMessages

\* the chunks of stderr a child is seen to write
StderrChunks == {<<"npm", "WARN">>, <<"Error">>, <<"npm", "failed">>}

\* the child writes text to its stderr, at any time after the spawn, and the
\* handler calls emit('error', ...) for it (mcp-wrapper.ts:99): without an
\* 'error' listener emit throws, inside the 'data' callback, and the
\* exception that nothing catches ends the server.  With a listener the
\* event is written to the streams and changes nothing here.
EmitError(text) ==
    /\ ~unhandled
    /\ Categorize(text) = "error: MCP Server Error"
    /\ ErrorListeners = 0
    /\ unhandled' = TRUE
    /\ UNCHANGED <<handlers, onMessages, warned, bridge, codec, supervisor, shim, diag,
                   registry>>

ListenersNext ==
    \/ HandlerOn
    \/ HandlerOff
    \/ OnMessageOn
    \/ OnMessageOff
    \/ \E text \in StderrChunks : EmitError(text)

SpecListeners == Init /\ [][ListenersNext]_vars

\* -------------------------------------------------------- SessionManager
SessionIds == 1..MaxSessions

\* the age beyond which a session is stale: 60 * 60 * 1000 ms, index.ts:477,
\* in units of half an hour
StaleAfter == 2

\* the clock advances
Tick ==
    /\ now < MaxTime
    /\ now' = now + 1
    /\ UNCHANGED <<sessions, bridge, codec, emitter, supervisor, shim, diag>>

\* a catch block that leaves the map as it is
CreateFailedKeeps(se) == [se EXCEPT !.pc = "threw"]

\* the catch block of createSession(): index.ts:428-431
CreateFailed(se) == [se EXCEPT !.inMap = FALSE, !.pc = "threw"]

\* createSession() resumes when start() has settled: index.ts:423-431
CreateSettled(se) ==
    IF se.pc # "awaitStart" \/ se.mcpWrapper.start = "pending" THEN se
    ELSE IF se.mcpWrapper.start = "resolved" THEN [se EXCEPT !.pc = "returned"]
    ELSE CreateFailed(se)

\* createSession(), up to await mcpWrapper.start(): index.ts:374-423.  A
\* spawn that failed reports its 'error' before anything else runs, and
\* createSession() resumes in its catch block.
CreateSession(s, outcome) ==
    /\ sessions[s].pc = "none"
    /\ IF s = 1 THEN TRUE ELSE sessions[s - 1].pc # "none"
    /\ LET w == Spawn(NewWrapper, outcome)
           se == [sessions[s] EXCEPT !.inMap = TRUE, !.createdAt = now,
                                     !.lastActivity = now, !.pc = "awaitStart",
                                     !.mcpWrapper = IF outcome = "spawnError"
                                                    THEN ErrorFired(w) ELSE w]
       IN sessions' = [sessions EXCEPT ![s] = CreateSettled(se)]
    /\ UNCHANGED <<now, bridge, codec, emitter, supervisor, shim, diag>>

\* the readiness timer of the session's wrapper fires (mcp-wrapper.ts:121-128)
\* and createSession() resumes
SessionReadyTimer(s) ==
    /\ sessions[s].mcpWrapper.timer
    /\ sessions' = [sessions EXCEPT
                       ![s] = CreateSettled([@ EXCEPT !.mcpWrapper = ReadyFired(@)])]
    /\ UNCHANGED <<now, bridge, codec, emitter, supervisor, shim, diag>>

\* sendMessage(sessionId, message) on a session whose wrapper takes it:
\* index.ts:444-451
SessionSend(s) ==
    /\ sessions[s].inMap
    /\ ~sendMessageThrows(sessions[s].mcpWrapper)
    /\ sessions' = [sessions EXCEPT ![s].lastActivity = now]
    /\ UNCHANGED <<now, bridge, codec, emitter, supervisor, shim, diag>>

\* a destroySession that waits for an 'exit' even of a wrapper without process
DestroyAlwaysWaits(se) ==
    IF ~se.inMap THEN se ELSE [se EXCEPT !.stopping = TRUE]

\* destroySession(sessionId), up to await stop(): index.ts:456-471.  stop()
\* (mcp-wrapper.ts:173-192) resolves at once on a wrapper without process;
\* otherwise it signals the process, arms its timer, and the session stays in
\* the map until the process has exited.
destroySession(se) ==
    IF ~se.inMap THEN se
    ELSE IF se.mcpWrapper.process = "null" THEN [se EXCEPT !.inMap = FALSE]
    ELSE [se EXCEPT !.stopping = TRUE, !.killTimer = TRUE,
                    !.mcpWrapper.killed = @ \/ se.mcpWrapper.child = "alive"]

\* a caller calls destroySession(sessionId) with an id it was given, or with
\* one that is not in the map
DestroySession(s) ==
    /\ sessions[s].pc # "awaitStart"
    /\ sessions' = [sessions EXCEPT ![s] = destroySession(@)]
    /\ UNCHANGED <<now, bridge, codec, emitter, supervisor, shim, diag>>

\* the 5000 ms timer of a stop() fires: mcp-wrapper.ts:185-189
SessionKillTimer(s) ==
    /\ sessions[s].killTimer
    /\ LET live == /\ sessions[s].mcpWrapper.process # "null"
                   /\ sessions[s].mcpWrapper.child = "alive"
       IN sessions' = [sessions EXCEPT ![s].killTimer = FALSE,
                                       ![s].sigkill = @ \/ live,
                                       ![s].mcpWrapper.killed = @ \/ live]
    /\ UNCHANGED <<now, bridge, codec, emitter, supervisor, shim, diag>>

\* the process of the session's wrapper exits: the wrapper's own handler
\* clears its process (mcp-wrapper.ts:107-112), the listener of
\* index.ts:414-420 writes to the stream, ends it and calls destroySession,
\* and every destroySession that awaited stop() resumes and deletes
SessionExit(s) ==
    /\ sessions[s].mcpWrapper.child = "alive"
    /\ LET se == [sessions[s] EXCEPT !.mcpWrapper = ExitFired(@),
                                     !.disconnected = @ + 1,
                                     !.ended = TRUE]
           de == destroySession(se)
       IN sessions' = [sessions EXCEPT
                          ![s] = IF se.stopping
                                 THEN [de EXCEPT !.stopping = FALSE, !.inMap = FALSE]
                                 ELSE de]
    /\ UNCHANGED <<now, bridge, codec, emitter, supervisor, shim, diag>>

\* the test of cleanupStaleSessions: index.ts:477-480
IsStale(se) == se.createdAt < now - StaleAfter

\* cleanupStaleSessions(): index.ts:476-485
cleanupStaleSessions ==
    /\ \E s \in SessionIds : sessions[s].inMap
    /\ sessions' = [s \in SessionIds |->
                       IF sessions[s].inMap /\ IsStale(sessions[s])
                       THEN destroySession(sessions[s])
                       ELSE sessions[s]]
    /\ UNCHANGED <<now, bridge, codec, emitter, supervisor, shim, diag>>

SessionsNext ==
    \/ Tick
    \/ \E s \in SessionIds, outcome \in {"alive", "spawnError"} : CreateSession(s, outcome)
    \/ \E s \in SessionIds : SessionReadyTimer(s)
    \/ \E s \in SessionIds : SessionSend(s)
    \/ \E s \in SessionIds : DestroySession(s)
    \/ \E s \in SessionIds : SessionKillTimer(s)
    \/ \E s \in SessionIds : SessionExit(s)
    \/ cleanupStaleSessions

SpecSessions == Init /\ [][SessionsNext]_vars

\* Node runs every timer that is due, and a process that received SIGKILL exits
SpecSessionsFair ==
    /\ SpecSessions
    /\ \A s \in SessionIds : WF_vars(SessionReadyTimer(s))
    /\ \A s \in SessionIds : WF_vars(SessionKillTimer(s))
    /\ \A s \in SessionIds : WF_vars(sessions[s].sigkill /\ SessionExit(s))

\* =================================================================== claims
StartSucceeds(k) == wrappers[k].start = "pending" /\ wrappers'[k].start = "resolved"
StartFails(k) == wrappers[k].start = "pending" /\ wrappers'[k].start = "rejected"

\* a step in which some caller calls getOrCreateMCPWrapper (a request that
\* auth answers with 401 does not, nor a POST that is answered with 400 or
\* whose handler threw before)
CallsGetOrCreate ==
    \/ warm.pc = "init" /\ warm'.pc # "init"
    \/ \E s \in StreamIds :
          streams[s].pc = "idle" /\ streams'[s].pc \notin {"idle", "unauthorized"}
    \/ \E c \in CallIds :
          /\ calls[c].pc = "idle"
          /\ calls'[c].pc \notin {"idle", "threw"}
          /\ calls'[c].status \notin {401, 400}

ChildrenAlive == {k \in WrapperIds : wrappers[k].child = "alive"}

\* C1: in every reachable state at most one child process spawned through
\* getOrCreateMCPWrapper is alive (spawned and not yet exited).
C1_AtMostOneChildAlive == Cardinality(ChildrenAlive) <= 1

\* a second child runs after the first one exited, with callers suspended on
\* its creation
C1_Witness ==
    /\ wrappers[1].child = "exited"
    /\ wrappers[2].child = "alive"
    /\ CallsAwaiting(2) # {}
    /\ StreamsAwaiting(2) # {}

\* C2: all calls of getOrCreateMCPWrapper issued while no instance runs and
\* before the start() in flight completed are suspended on that one creation,
\* no further process is spawned while it is in flight, and when its start()
\* succeeds every one of them receives its wrapper.
C2_OneCreationSharedByAll ==
    /\ [](/\ Cardinality({k \in WrapperIds : wrappers[k].start = "pending"}) <= 1
          /\ \A s \in StreamIds : streams[s].pc = "awaitWrapper" =>
                /\ streams[s].awaits = wrapperCreationPromise
                /\ wrappers[streams[s].awaits].start = "pending"
          /\ \A c \in CallIds : calls[c].pc = "awaitWrapper" =>
                /\ calls[c].awaits = wrapperCreationPromise
                /\ wrappers[calls[c].awaits].start = "pending"
          /\ warm.pc = "awaitWrapper" =>
                /\ warm.awaits = wrapperCreationPromise
                /\ wrappers[warm.awaits].start = "pending")
    /\ [][wrapperCreationPromise # 0 => nWrappers' = nWrappers]_vars
    /\ [][\A k \in WrapperIds : StartSucceeds(k) =>
            /\ globalMCPWrapper' = k
            /\ \A s \in StreamsAwaiting(k) :
                  streams'[s].pc = "open" /\ streams'[s].wrapper = k
            /\ \A c \in CallsAwaiting(k) :
                  /\ calls'[c].wrapper = k
                  /\ calls'[c].outcome \in {"none", "accepted"}
            /\ WarmAwaiting(k) => warm'.pc = "awaitInit" /\ warm'.wrapper = k]_vars

\* the warm-up, a stream and two POSTs are suspended on the same creation
C2_Witness ==
    /\ nWrappers = 1
    /\ WarmAwaiting(1)
    /\ StreamsAwaiting(1) # {}
    /\ Cardinality(CallsAwaiting(1)) >= 2

\* C3: whenever the marker is set its creation is still in flight (it is
\* cleared when the creation settles, whatever the outcome); a call made after
\* a failed creation, with no creation in flight and no running instance,
\* spawns a new process; and the marker is only ever cleared by the settling
\* of the creation it names.
C3_MarkerClearedOnSettle ==
    /\ [](wrapperCreationPromise # 0 =>
            wrappers[wrapperCreationPromise].start = "pending")
    /\ [][(/\ \E k \in WrapperIds : wrappers[k].start = "rejected"
           /\ wrapperCreationPromise = 0
           /\ ~(globalMCPWrapper # 0 /\ isRunning(wrappers[globalMCPWrapper]))
           /\ CallsGetOrCreate)
          => /\ nWrappers' = nWrappers + 1
             /\ wrapperCreationPromise' = nWrappers'
             /\ wrappers'[nWrappers'].start = "pending"
             /\ wrappers'[nWrappers'].child \in {"alive", "spawnError"}]_vars
    /\ [][(wrapperCreationPromise # 0 /\ wrapperCreationPromise' # wrapperCreationPromise)
          => /\ wrapperCreationPromise' = 0
             /\ wrappers'[wrapperCreationPromise].start # "pending"]_vars

\* the first creation failed and a later call started the second one
C3_Witness ==
    /\ wrappers[1].start = "rejected"
    /\ wrapperCreationPromise = 2
    /\ wrappers[2].start = "pending"
    /\ wrappers[2].child = "alive"

\* C4: when start() fails, the creator and every caller suspended on the
\* creation are rejected, none of them receives a wrapper, and
\* globalMCPWrapper is never the wrapper whose start() failed.
C4_FailureReachesAllWaiters ==
    /\ [](\A k \in WrapperIds : wrappers[k].start = "rejected" => globalMCPWrapper # k)
    /\ [][\A k \in WrapperIds : StartFails(k) =>
            /\ globalMCPWrapper' = globalMCPWrapper
            /\ \A s \in StreamsAwaiting(k) :
                  streams'[s].pc = "failed" /\ streams'[s].wrapper = 0
            /\ \A c \in CallsAwaiting(k) :
                  /\ calls'[c].outcome = "startFailed"
                  /\ calls'[c].status = 500
                  /\ calls'[c].wrapper = 0
            /\ WarmAwaiting(k) => warm'.pc = "failed" /\ warm'.wrapper = 0
            /\ \A w \in WrapperIds :
                  /\ wrappers'[w].message = wrappers[w].message
                  /\ wrappers'[w].error = wrappers[w].error]_vars

\* the first start() failed with the warm-up, a stream and a POST suspended on it
C4_Witness ==
    /\ nWrappers = 1
    /\ wrappers[1].start = "rejected"
    /\ warm.pc = "failed"
    /\ streams[1].pc = "failed"
    /\ \E c \in CallIds : calls[c].outcome = "startFailed"

\* the message listener of POST c is registered on some wrapper
Registered(c) == \E k \in WrapperIds : Listener("post", c) \in wrappers[k].message

\* the HTTP response of POST c is the same before and after the step
SameResponse(c) ==
    /\ calls'[c].pc = calls[c].pc
    /\ calls'[c].status = calls[c].status
    /\ calls'[c].outcome = calls[c].outcome
    /\ calls'[c].result = calls[c].result

SameLogs == \A s \in StreamIds : streams'[s].log = streams[s].log

\* C5: a submission that returns a reply returns one carrying its own id; the
\* message that resolves one outstanding call leaves outstanding calls with
\* other ids untouched, in whatever order the child emits the replies.
C5_MatchedById ==
    /\ [](\A c \in CallIds : calls[c].outcome = "resolved" =>
            calls[c].status = 200 /\ calls[c].result.id = calls[c].id)
    /\ [][\A c \in CallIds :
            (calls[c].pc = "waiting" /\ calls'[c].outcome = "resolved") =>
               \A d \in CallIds :
                  (calls[d].pc = "waiting" /\ calls[d].id # calls[c].id) =>
                      calls'[d] = calls[d]]_vars

\* two calls with distinct ids were outstanding on one wrapper and the reply
\* to the second arrived first
C5_Witness ==
    /\ calls[1].pc = "waiting"
    /\ calls[2].outcome = "resolved"
    /\ calls[1].id # calls[2].id
    /\ calls[1].wrapper = calls[2].wrapper

\* C6: a resolved call keeps its one reply, its listener and timer are gone,
\* and a message carrying an id for which no call is waiting (the second of
\* two messages with the id of a request submitted once) changes the response
\* of no submission and is written to no stream.
C6_AtMostOneReply ==
    /\ [](\A c \in CallIds : calls[c].outcome = "resolved" =>
            ~Registered(c) /\ ~calls[c].timer)
    /\ [][\A c \in CallIds : calls[c].outcome = "resolved" => SameResponse(c)]_vars
    /\ [][\/ (\A c \in CallIds : SameResponse(c)) /\ SameLogs
          \/ \A k \in WrapperIds, m \in MCPMessage :
                ~(/\ m.id # NoId
                  /\ \A c \in CallIds : ~(calls[c].pc = "waiting" /\ calls[c].id = m.id)
                  /\ ProcessStdout(k, m))]_vars

\* the child wrote a second response with the id of a resolved request that
\* no other submission used
C6_Witness ==
    \E c \in CallIds :
       /\ calls[c].outcome = "resolved"
       /\ calls[c].lateReply
       /\ \A d \in CallIds \ {c} : calls[d].id # calls[c].id
       /\ \E s \in StreamIds : streams[s].pc = "open" /\ streams[s].wrapper = calls[c].wrapper

\* C7: the listener and the timer of a request are registered exactly while
\* its promise is pending, the listener on the request's own wrapper; the
\* step that ends the wait removes both and either resolves or times out; and
\* a settled call never changes its outcome.
C7_EntryConsumedOnce ==
    /\ [](\A c \in CallIds :
            /\ Registered(c) <=> calls[c].pc = "waiting"
            /\ calls[c].timer <=> calls[c].pc = "waiting"
            /\ \A k \in WrapperIds :
                  Listener("post", c) \in wrappers[k].message => k = calls[c].wrapper)
    /\ [][\A c \in CallIds :
            /\ calls[c].pc = "waiting" /\ calls'[c].pc # "waiting" =>
                  calls'[c].outcome \in {"resolved", "timeout"}
            /\ calls[c].outcome # "none" => calls'[c].outcome = calls[c].outcome]_vars

\* one entry was consumed by its reply and another by its timer
C7_Witness ==
    \E c, d \in CallIds :
       /\ calls[c].outcome = "resolved"
       /\ calls[d].outcome = "timeout"
       /\ calls[c].wrapper = calls[d].wrapper

\* C8: a call is resolved only by a response (a message with the id and no
\* method).
C8_OnlyResponsesResolve ==
    \A c \in CallIds : calls[c].outcome = "resolved" => ~calls[c].result.method

\* C9: a call that timed out was answered 500 without a result and has no
\* listener and no timer left; a call with a different id submitted after
\* the timeout is resolved by a message carrying its own id.
C9_TimeoutLeavesNoListener ==
    \A c \in CallIds : calls[c].outcome = "timeout" =>
       /\ calls[c].status = 500
       /\ calls[c].result = NoMsg
       /\ ~calls[c].timer
       /\ ~Registered(c)
       /\ \A d \in CallIds :
             (c \in calls[d].after /\ calls[d].id # calls[c].id
                /\ calls[d].outcome = "resolved") =>
                   calls[d].result.id = calls[d].id

\* a call timed out and a call with another id, submitted afterwards to the
\* same wrapper, was resolved
C9_Witness ==
    \E c, d \in CallIds :
       /\ calls[c].outcome = "timeout"
       /\ c \in calls[d].after
       /\ calls[d].id # calls[c].id
       /\ calls[d].wrapper = calls[c].wrapper
       /\ calls[d].outcome = "resolved"

\* a response is emitted by wrapper k for the id of a call that timed out on it
LateReplyStep(k, m) ==
    /\ m.id # NoId
    /\ ~m.method
    /\ \E c \in CallIds :
          calls[c].outcome = "timeout" /\ calls[c].id = m.id /\ calls[c].wrapper = k
    /\ ProcessStdout(k, m)

\* calls keep ids unique among outstanding requests: POSTs waiting for the
\* id of m arrived after the timeout of every call that timed out with it
IdReusedOnlyAfterTimeout(m) ==
    \A c, d \in CallIds :
       (calls[c].outcome = "timeout" /\ calls[c].id = m.id
          /\ calls[d].pc = "waiting" /\ calls[d].id = m.id) => c \in calls[d].after

\* C10 as stated: a reply emitted after the call for its id has timed out
\* resolves no call, is returned by no submission and is written to no stream.
C10_LateReplyResolvesNothing ==
    [][\A k \in WrapperIds, m \in MCPMessage :
         (IdReusedOnlyAfterTimeout(m) /\ LateReplyStep(k, m))
         => (\A d \in CallIds : SameResponse(d)) /\ SameLogs]_vars

\* C10 as amended: a reply emitted after the call for its id has timed out
\* is never returned by the timed-out submission nor by a submission with
\* another id and is written to no stream; it resolves a call only if a
\* later submission reused the id and is still waiting.
C10_LateReplyOnlyForReusedId ==
    [][\A k \in WrapperIds, m \in MCPMessage :
         LateReplyStep(k, m)
         => /\ \A d \in CallIds :
                  \/ SameResponse(d)
                  \/ /\ calls[d].pc = "waiting"
                     /\ calls[d].id = m.id
                     /\ calls'[d].outcome = "resolved"
                     /\ calls'[d].result = m
            /\ SameLogs]_vars

\* the child wrote a response with the id of a call that had timed out, with
\* a stream open on the wrapper
C10_Witness ==
    \E c \in CallIds :
       /\ calls[c].outcome = "timeout"
       /\ calls[c].lateReply
       /\ \E s \in StreamIds : streams[s].pc = "open" /\ streams[s].wrapper = calls[c].wrapper

\* the step in which the 30 s timer of POST c fires while the call is pending
TimeoutStep(c) == calls[c].pc = "waiting" /\ calls'[c].outcome = "timeout"

\* the fields of wrapper k that describe its process
ProcessState(w) == <<w.process, w.killed, w.isInitialized, w.child, w.timer, w.start>>

\* C11: the timeout of one call changes nothing but that call and its own
\* listener: every other call keeps its state, its timer and its listener,
\* the state of every process is unchanged, streams and warm-up are untouched;
\* and a call that was outstanding when another one timed out is still
\* resolved by the message carrying its id.
C11_TimeoutTouchesOnlyItsCall ==
    /\ [][\A c \in CallIds : TimeoutStep(c) =>
            /\ \A d \in CallIds \ {c} : calls'[d] = calls[d]
            /\ \A k \in WrapperIds :
                  /\ wrappers'[k].message = wrappers[k].message \ {Listener("post", c)}
                  /\ wrappers'[k].error = wrappers[k].error
                  /\ ProcessState(wrappers'[k]) = ProcessState(wrappers[k])
            /\ streams' = streams
            /\ warm' = warm
            /\ globalMCPWrapper' = globalMCPWrapper
            /\ wrapperCreationPromise' = wrapperCreationPromise]_vars
    /\ [][\A d \in CallIds :
            (/\ calls[d].pc = "waiting"
             /\ \E c \in CallIds : calls[c].outcome = "timeout" /\ c \notin calls[d].after)
            => \A m \in MCPMessage :
                  (m.id = calls[d].id /\ ProcessStdout(calls[d].wrapper, m))
                  => calls'[d].outcome = "resolved" /\ calls'[d].result = m]_vars

\* a call timed out while another call was outstanding on the same wrapper,
\* and the other call is still waiting with its listener and its timer
C11_Witness ==
    \E c, d \in CallIds :
       /\ calls[c].outcome = "timeout"
       /\ calls[d].pc = "waiting"
       /\ c \notin calls[d].after
       /\ calls[d].wrapper = calls[c].wrapper
       /\ calls[d].timer
       /\ Listener("post", d) \in wrappers[calls[d].wrapper].message

\* C12: a POST without id never has a listener or a timer and never waits
\* for a message of the process; a notification with jsonrpc '2.0' is taken
\* by the handler, which asks for the wrapper; once it has obtained the
\* wrapper it is answered 202 in the same step, its message written once to
\* the child's stdin, whatever the process emits or does not emit.
C12_NotificationForwardedNotCorrelated ==
    /\ [](\A c \in CallIds : calls[c].id = NoId =>
            /\ ~Registered(c)
            /\ ~calls[c].timer
            /\ calls[c].pc # "waiting"
            /\ calls[c].outcome \in {"none", "unauthorized", "invalid", "threw",
                                     "accepted", "startFailed"}
            /\ calls[c].outcome = "accepted" =>
                  /\ calls[c].status = 202
                  /\ calls[c].sent = 1
                  /\ calls[c].result = NoMsg)
    /\ [][\A c \in CallIds :
            (calls[c].wrapper = 0 /\ calls'[c].wrapper # 0 /\ calls'[c].id = NoId)
            => /\ calls'[c].pc = "done"
               /\ calls'[c].status = 202
               /\ calls'[c].sent = 1
               /\ \A k \in WrapperIds :
                     Listener("post", c) \notin wrappers'[k].message]_vars
    /\ [][\A c \in CallIds :
            (calls[c].pc = "idle" /\ calls'[c].pc # "idle") =>
               \A b \in PostBodies :
                  (/\ b.jsonrpc = "2.0"
                   /\ b.method # "none"
                   /\ Submit(c, NoId, Authorized, b))
                  => calls'[c].outcome \in {"none", "accepted", "startFailed"}]_vars

\* a notification was accepted while a request sent earlier to the same
\* process is still waiting for its reply
C12_Witness ==
    \E c, d \in CallIds :
       /\ calls[c].id = NoId
       /\ calls[c].outcome = "accepted"
       /\ calls[c].sent = 1
       /\ d < c
       /\ calls[d].pc = "waiting"
       /\ calls[d].wrapper = calls[c].wrapper

\* the Authorization header is 'Bearer ' followed by the configured secret
ValidHeader(h) == h = [present |-> TRUE, scheme |-> "Bearer ", token |-> MCP_AUTH_SECRET]

\* the headers the claim names
Unauthorized == {h \in Headers : ~ValidHeader(h)}

\* a body for each way the handler of an authorized POST goes: on to the
\* wrapper, out with the TypeError of fixParams, back with 400
BodyKinds ==
    {ToolsList,
     [jsonrpc |-> "2.0", method |-> "tools/call", params |-> "absent"],
     [jsonrpc |-> "1.0", method |-> "tools/list", params |-> "absent"]}

\* C17: a GET /sse or POST /sse/messages whose Authorization header is
\* missing, is not 'Bearer <token>' or carries another token is answered 401
\* and changes nothing else: no process is spawned, nothing is written to a
\* process, no listener, timer or session entry is created.
C17_UnauthorizedHasNoEffect ==
    /\ [](/\ \A c \in CallIds :
               /\ calls[c].status = 401 <=> calls[c].outcome = "unauthorized"
               /\ calls[c].outcome = "unauthorized" =>
                     /\ calls[c].sent = 0
                     /\ calls[c].wrapper = 0
                     /\ ~calls[c].timer
                     /\ ~Registered(c)
          /\ \A s \in StreamIds : streams[s].pc = "unauthorized" =>
               /\ ~streams[s].session
               /\ ~streams[s].keepalive
               /\ streams[s].log = <<>>
               /\ \A k \in WrapperIds :
                     Listener("sse", s) \notin wrappers[k].message
                        /\ s \notin wrappers[k].error)
    /\ [][\A c \in CallIds :
            (calls[c].pc = "idle" /\ calls'[c].pc # "idle") =>
               \A h \in Unauthorized, i \in ClientIds \cup {NoId}, b \in BodyKinds :
                  Submit(c, i, h, b) =>
                     /\ calls' = [calls EXCEPT ![c] = [NewCall EXCEPT !.pc = "done",
                                                                      !.status = 401,
                                                                      !.outcome = "unauthorized"]]
                     /\ UNCHANGED <<globalMCPWrapper, wrapperCreationPromise, nWrappers,
                                    wrappers, streams, warm>>]_vars
    /\ [][\A s \in StreamIds :
            (streams[s].pc = "idle" /\ streams'[s].pc # "idle") =>
               \A h \in Unauthorized :
                  OpenStream(s, h) =>
                     /\ streams' = [streams EXCEPT
                                       ![s] = [NewStream EXCEPT !.pc = "unauthorized"]]
                     /\ UNCHANGED <<globalMCPWrapper, wrapperCreationPromise, nWrappers,
                                    wrappers, calls, warm>>]_vars

\* the only process failed to start, no creation is in flight, and a GET and a
\* POST without valid credentials were answered 401: no second process exists
C17_Witness ==
    /\ nWrappers = 1
    /\ wrappers[1].start = "rejected"
    /\ wrapperCreationPromise = 0
    /\ streams[1].pc = "unauthorized"
    /\ \E c \in CallIds : calls[c].status = 401

\* the message events written to stream s
MessageEvents(s) ==
    {i \in 1..Len(streams[s].log) : streams[s].log[i].event = "message"}

Attached(s) == streams[s].pc = "open" /\ ~streams[s].clientGone

\* C14: every message without id that a process emits while a stream is open
\* with its client connected is written to that stream, once, as a message event.
C14_NotificationsReachOpenStreams ==
    /\ [](\A s \in StreamIds : Cardinality(MessageEvents(s)) = streams[s].emitted)
    /\ [][\A k \in WrapperIds, m \in MCPMessage :
            (m.id = NoId /\ ProcessStdout(k, m))
            => \A s \in StreamIds :
                  Attached(s) =>
                     streams'[s].log = Append(streams[s].log, Event("message", m))]_vars

\* the resources of stream s are released
Released(s) ==
    /\ ~streams[s].session
    /\ ~streams[s].keepalive
    /\ \A k \in WrapperIds :
          Listener("sse", s) \notin wrappers[k].message /\ s \notin wrappers[k].error

\* C15: once the client of a stream has disconnected and the request is no
\* longer suspended on the wrapper, the stream's listeners are detached, its
\* sessionStore entry is removed and its keepalive timer is cleared.
C15_DisconnectReleasesStream ==
    \A s \in StreamIds :
       (streams[s].clientGone /\ streams[s].pc # "awaitWrapper") => Released(s)

\* C16: every stream that passed auth has the endpoint announcement as the
\* first event of its log, written in the step that accepted the request
\* (before the wrapper is obtained); every message, error and keepalive event
\* comes after it and it is written once.
C16_EndpointAnnouncedFirst ==
    /\ [](\A s \in StreamIds :
            streams[s].pc \in {"awaitWrapper", "open", "failed", "closed"} =>
               /\ Len(streams[s].log) >= 1
               /\ streams[s].log[1] = Event("endpoint", NoMsg)
               /\ \A i \in 2..Len(streams[s].log) :
                     streams[s].log[i].event \in {"message", "error", "keepalive"})
    /\ [][\A s \in StreamIds :
            (streams[s].pc = "idle" /\ streams'[s].pc \notin {"idle", "unauthorized"})
            => streams'[s].log[1] = Event("endpoint", NoMsg)]_vars
    /\ [][\A s \in StreamIds :
            streams[s].log # <<>> =>
               /\ Len(streams'[s].log) >= Len(streams[s].log)
               /\ streams'[s].log[1] = streams[s].log[1]]_vars

\* a stream still suspended on the wrapper has the announcement and, after
\* it, a keepalive
C16_Witness ==
    \E s \in StreamIds :
       /\ streams[s].pc = "awaitWrapper"
       /\ streams[s].wrapper = 0
       /\ streams[s].log = <<Event("endpoint", NoMsg), Event("keepalive", NoMsg)>>

RECURSIVE Flatten(_)
\* the bytes of a sequence of chunks
Flatten(chunks) == IF chunks = <<>> THEN <<>> ELSE Head(chunks) \o Flatten(Tail(chunks))

\* the complete lines of a byte stream decoded as a whole
CompleteLines(bytes) ==
    LET lines == split(toString(bytes)) IN SubSeq(lines, 1, Len(lines) - 1)

\* the line is a JSON text
IsJSON(line) == IsNumber(trim(line)) \/ IsString(trim(line))

\* the bytes are well-formed UTF-8 and consist of newline-terminated JSON texts
NewlineTerminatedJSON(bytes) ==
    /\ bytes # <<>>
    /\ bytes[Len(bytes)] = "0A"
    /\ \A i \in 1..Len(toString(bytes)) : toString(bytes)[i] # "U+FFFD"
    /\ \A i \in 1..Len(CompleteLines(bytes)) : IsJSON(CompleteLines(bytes)[i])

\* C19: when the child has written newline-terminated JSON messages and all
\* chunks have been fed to handleStdoutData, the messages emitted are those
\* that feeding the whole stream in one chunk emits, in the same order.
C19_SplitEmitsSameMessages ==
    (fed = Len(stdout) /\ NewlineTerminatedJSON(Flatten(stdout)))
    => emitted = handleStdoutData(<<>>, Flatten(stdout)).emitted

\* a line before position j is not blank and is not a JSON text
BadLineBefore(lines, j) ==
    \E i \in 1..(j - 1) : trim(lines[i]) # <<>> /\ ~IsJSON(lines[i])

\* C20: whatever the child wrote and however it was cut into chunks, once
\* all chunks have been fed the messages emitted correspond one to one, in
\* order, to the complete lines that are JSON texts (the lines that are not
\* are skipped, those after them are not), no error event was emitted, and
\* when no character was cut each message is the value of its line.
C20_BadLineSkipped ==
    fed = Len(stdout) =>
       /\ Len(emitted) = Len(SelectSeq(CompleteLines(Flatten(stdout)), IsJSON))
       /\ errorEvents = 0
       /\ toString(Flatten(stdout)) = Flatten([i \in 1..Len(stdout) |-> toString(stdout[i])])
             => emitted = [i \in 1..Len(emitted) |->
                              trim(SelectSeq(CompleteLines(Flatten(stdout)), IsJSON)[i])]

\* the child wrote a line that is not JSON ('"') and then the line '1' in a
\* second chunk: only the second was emitted
C20_Witness ==
    /\ stdout = << <<"22", "0A">>, <<"31", "0A">> >>
    /\ fed = 2
    /\ emitted = << <<"1">> >>
    /\ BadLineBefore(CompleteLines(Flatten(stdout)), 2)

\* C18: with up to MaxSubmissions POSTs waiting at once and the listeners of
\* the open streams, the 'message' listeners of the wrapper never number more
\* than its limit and no MaxListenersExceededWarning is emitted.
C18_ListenersWithinLimit ==
    /\ handlers + onMessages <= getMaxListeners
    /\ ~warned

\* ------------------------------------------------ claims on the supervisor
\* The state of the Process Handle of child n: absent before the spawn,
\* exited once the process terminated or turned out not to exist, ready while
\* the wrapper has marked it initialized, starting otherwise.
HandleState(n) ==
    CASE children[n].state = "none" -> "absent"
      [] children[n].state \in {"failed", "exited"} -> "exited"
      [] OTHER -> IF this.process = n /\ this.isInitialized THEN "ready" ELSE "starting"

\* the state of the process the Supervisor owns
OwnedState == IF this.process = 0 THEN "absent" ELSE HandleState(this.process)

\* C22: a call of sendMessage made while the Supervisor's process is not in
\* the ready state (absent, starting, exited) throws and writes nothing; a
\* call made in the ready state writes its line.
C22_SendOnlyWhenReady ==
    [][\A payload \in Payloads, k \in 0..2 :
          SupSend(payload, k) =>
             IF OwnedState = "ready"
             THEN /\ returned' = "sendMessage: returned"
                  /\ sendLog' = Append(sendLog, <<this.process, payload>>)
             ELSE /\ returned' = "sendMessage: MCP server not running"
                  /\ UNCHANGED <<children, sendLog>>]_vars

\* C23: start() called while the Supervisor owns a process (starting or
\* ready) fails with 'MCP server already running', spawns nothing and leaves
\* the owned process, the wrapper's fields and every timer as they were.
C23_SecondStartRejected ==
    [][\A outcome \in {"alive", "spawnError"} :
          (this.process # 0 /\ SupStart(outcome)) =>
             /\ returned' = "start: MCP server already running"
             /\ Spawned' = Spawned
             /\ UNCHANGED <<this, children, starts, readyTimers, stops>>]_vars

\* start() was refused on a wrapper whose only process is ready
C23_Witness ==
    /\ returned = "start: MCP server already running"
    /\ OwnedState = "ready"
    /\ Spawned = {1}

\* C24: stop() delivers SIGTERM to the owned process; its timer delivers
\* SIGKILL to that process if it has not exited; the call stays pending while
\* the process has not exited and is resolved once it has; on a Supervisor
\* without process it is resolved at once; and every stop() is eventually
\* resolved.
C24_StopCompletes ==
    /\ [][\A j \in StopIds :
            SupStop(j) =>
               IF this.process = 0
               THEN stops'[j].state = "resolved"
               ELSE children[this.process].state = "alive"
                       => children'[this.process].killed]_vars
    /\ [][\A j \in StopIds :
            (SupKillTimer(j) /\ children[stops[j].target].state = "alive")
               => children'[stops[j].target].sigkill]_vars
    /\ [](\A j \in StopIds :
            stops[j].target # 0 =>
               (stops[j].state = "resolved"
                   <=> children[stops[j].target].state = "exited"))
    /\ \A j \in StopIds : (stops[j].state = "pending") ~> (stops[j].state = "resolved")

\* C25: isRunning() is true exactly when the owned process is ready (and so
\* has not exited), and exactly when sendMessage would not throw.
C25_IsRunningIffReady ==
    /\ isRunning(Wrapper) <=> OwnedState = "ready"
    /\ isRunning(Wrapper) <=> ~sendMessageThrows(Wrapper)

\* the edges of the Process Handle
HandleEdges ==
    {<<"absent", "starting">>, <<"starting", "ready">>, <<"starting", "exited">>,
     <<"ready", "exited">>}

\* C26: the state of every process instance changes only along absent to
\* starting, starting to ready, starting to exited and ready to exited.
C26_HandleStateEdges ==
    [][\A n \in ChildIds :
          \/ HandleState(n)' = HandleState(n)
          \/ <<HandleState(n), HandleState(n)'>> \in HandleEdges]_vars

\* the first process went through starting and ready and has exited, the
\* second one, spawned by a later start(), is ready
C26_Witness ==
    /\ HandleState(1) = "exited"
    /\ children[1].state = "exited"
    /\ starts[1] = "resolved"
    /\ HandleState(2) = "ready"

RECURSIVE LinesFor(_, _)
\* the lines of the calls of sendMessage in log that wrote to child n
LinesFor(log, n) ==
    IF log = <<>> THEN <<>>
    ELSE (IF Head(log)[1] = n THEN <<Head(log)[2], "newline">> ELSE <<>>)
         \o LinesFor(Tail(log), n)

\* C29: the input channel of every process holds the lines of the calls of
\* sendMessage made on it, each payload followed by its newline, in the order
\* of the calls: what the pipe has taken is a prefix of them, and while the
\* channel is open the pipe and the queue together hold exactly them.
C29_StdinInCallOrder ==
    \A n \in ChildIds :
       /\ Len(children[n].pipe) <= Len(LinesFor(sendLog, n))
       /\ children[n].pipe = SubSeq(LinesFor(sendLog, n), 1, Len(children[n].pipe))
       /\ children[n].state # "exited"
             => children[n].pipe \o children[n].queue = LinesFor(sendLog, n)

\* ------------------------------------- claims on parameter reconciliation
\* C21: in the tools/call request that leaves the reconciliation, for each
\* pair: when the alternate argument was present and the expected one absent,
\* the expected argument has the alternate's value and there is no alternate
\* key; otherwise both arguments are as they came.  A message with another
\* method leaves it unchanged.
C21_RenameOnlyWhenExpectedAbsent ==
    (forwarded.done /\ ~forwarded.threw) =>
       /\ IF body.method = "tools/call"
          THEN \A pr \in Pairs :
                  IF body.arguments[pr[1]] # "absent" /\ body.arguments[pr[2]] = "absent"
                  THEN /\ forwarded.msg.arguments[pr[2]] = body.arguments[pr[1]]
                       /\ forwarded.msg.arguments[pr[1]] = "absent"
                  ELSE /\ forwarded.msg.arguments[pr[2]] = body.arguments[pr[2]]
                       /\ forwarded.msg.arguments[pr[1]] = body.arguments[pr[1]]
          ELSE forwarded.msg = body

\* --------------------------------------------------- claims on the stderr
\* the chunk holds one of the keywords, in any case
Has(keywords) ==
    \E keyword \in keywords :
       \E i \in 1..(Len(stderrData) - Len(keyword) + 1) :
          \A j \in 1..Len(keyword) :
             keyword[j] \in Parts(toLowerCase(stderrData[i + j - 1]))

\* C27: a chunk is put into exactly one bucket, informational if it holds an
\* informational keyword, else warning if it holds a warning keyword, else
\* fatal if it holds an error keyword, else unclassified; and an error event
\* is emitted for it, once, if and only if its bucket is fatal.
C27_ErrorEventOnlyForFatal ==
    logged # "none" =>
       /\ logged = "log: MCP Server Info" <=> Has(InfoKeywords)
       /\ logged = "warn: MCP Server Warning"
             <=> (~Has(InfoKeywords) /\ Has(WarningKeywords))
       /\ logged = "error: MCP Server Error"
             <=> (~Has(InfoKeywords) /\ ~Has(WarningKeywords) /\ Has(ErrorKeywords))
       /\ logged = "log: MCP Server Debug"
             <=> ~(Has(InfoKeywords) \/ Has(WarningKeywords) \/ Has(ErrorKeywords))
       /\ stderrErrors = (IF logged = "error: MCP Server Error" THEN 1 ELSE 0)

\* a deprecation warning that mentions a failure was logged as a warning
\* and no error was emitted for it
C27_Witness ==
    /\ stderrData = <<"npm", "DeprecationWarning", "failed">>
    /\ logged = "warn: MCP Server Warning"
    /\ stderrErrors = 0

\* ------------------------------------------- claims on the SessionManager
\* the sweep begins or completes the destruction of session s in this step
SweptNow(s) ==
    /\ sessions[s].inMap
    /\ ~sessions[s].stopping
    /\ sessions'[s].stopping \/ ~sessions'[s].inMap

\* C30: a sweep destroys a session only when the session has had no activity
\* for the threshold period, and it destroys every session that has had none
\* for that period.
C30_ReapedAfterInactivity ==
    [][cleanupStaleSessions =>
          \A s \in SessionIds :
             /\ SweptNow(s) => sessions[s].lastActivity <= now - StaleAfter
             /\ (/\ sessions[s].inMap
                 /\ ~sessions[s].stopping
                 /\ sessions[s].lastActivity < now - StaleAfter) => SweptNow(s)]_vars

\* ------------------------------------------------ claims on the bridge (2)
\* POST c waits for a reply of an instance whose process has exited
Orphaned(c) ==
    /\ calls[c].pc = "waiting"
    /\ wrappers[calls[c].wrapper].child = "exited"

\* C28 as stated: the exit of a process ends none of the calls outstanding on
\* it; from then on each of them has its 30 s timer pending, can only end with
\* the timeout error, and does end with it; and a call is only ever listening
\* on its own instance, so no other instance's reply resolves it.
C28_OrphanedCallsTimeOut ==
    /\ [](\A c \in CallIds :
            /\ Orphaned(c) => calls[c].timer
            /\ \A k \in WrapperIds :
                  Listener("post", c) \in wrappers[k].message => calls[c].wrapper = k)
    /\ [][\A c \in CallIds :
            /\ (calls[c].pc = "waiting" /\ Orphaned(c)')
                  => (calls'[c] = calls[c] \/ Orphaned(c))
            /\ Orphaned(c) =>
                  \/ calls'[c] = calls[c]
                  \/ /\ calls'[c].outcome = "timeout"
                     /\ calls'[c].status = 500]_vars
    /\ \A c \in CallIds : Orphaned(c) ~> (calls[c].outcome = "timeout")

\* C28, amended: the exit of a process ends none of the calls outstanding on
\* it; from then on each of them has its 30 s timer pending and ends, either
\* with the timeout error or with a message carrying its id that the stdout
\* of its own, exited, instance still delivers; and a call is only ever
\* listening on its own instance, so no other instance's message resolves it.
C28_OrphanedCallsEnd ==
    /\ [](\A c \in CallIds :
            /\ Orphaned(c) => calls[c].timer
            /\ \A k \in WrapperIds :
                  Listener("post", c) \in wrappers[k].message => calls[c].wrapper = k)
    /\ [][\A c \in CallIds :
            /\ (calls[c].pc = "waiting" /\ Orphaned(c)')
                  => (calls'[c] = calls[c] \/ Orphaned(c))
            /\ Orphaned(c) =>
                  \/ calls'[c] = calls[c]
                  \/ /\ calls'[c].outcome = "timeout"
                     /\ calls'[c].status = 500
                  \/ /\ calls'[c].outcome = "resolved"
                     /\ calls'[c].result.id = calls[c].id
                     /\ \E m \in MCPMessage :
                           ProcessStdout(calls[c].wrapper, m)]_vars
    /\ \A c \in CallIds : Orphaned(c) ~> (calls[c].pc = "done")

\* the first process exited while POST 1 was waiting for its reply; POST 1
\* ended with the timeout error while a second process was running
C28_Witness ==
    /\ calls[1].outcome = "timeout"
    /\ calls[1].wrapper = 1
    /\ wrappers[1].child = "exited"
    /\ wrappers[2].child = "alive"
    /\ wrappers[2].isInitialized

\* ------------------------------------------------ claims on the bridge (3)
\* C31: a POST whose body is a response (an id, no method, jsonrpc '2.0') is
\* forwarded and nothing more: when the step that submits it ends, the POST is
\* not waiting for a message of the process, has no timer and no listener.
C31_ResponseOnlyForwarded ==
    [][\A c \in CallIds :
          (calls[c].pc = "idle" /\ calls'[c].pc # "idle") =>
             \A i \in ClientIds, b \in PostBodies :
                (b.method = "none" /\ ~InvalidJsonRpc(b) /\ Submit(c, i, Authorized, b)) =>
                   /\ calls'[c].pc # "waiting"
                   /\ ~calls'[c].timer
                   /\ \A k \in WrapperIds :
                         Listener("post", c) \notin wrappers'[k].message]_vars

\* C34: a POST whose jsonrpc is not '2.0' is answered with 400 and changes
\* nothing else: no wrapper is created, nothing is sent, no listener and no
\* timer is registered.
C34_InvalidAnsweredWith400 ==
    [][\A c \in CallIds :
          (calls[c].pc = "idle" /\ calls'[c].pc # "idle") =>
             \A i \in ClientIds \cup {NoId}, b \in PostBodies :
                (InvalidJsonRpc(b) /\ Submit(c, i, Authorized, b)) =>
                   /\ calls'[c].status = 400
                   /\ calls'[c].sent = 0
                   /\ ~calls'[c].timer
                   /\ UNCHANGED <<globalMCPWrapper, wrapperCreationPromise, nWrappers,
                                  wrappers, streams, warm>>]_vars

\* the HTTP responses the handler of POST sends
PostResponses ==
    {<<400, "invalid">>, <<202, "accepted">>, <<200, "resolved">>,
     <<500, "startFailed">>, <<500, "sendFailed">>, <<500, "timeout">>}

\* C40: a POST that passed authentication gets one response: when its handler
\* has ended a response was sent, the response is one of 400, 202, 200 with a
\* message carrying the id of the request, or 500, it is never replaced by
\* another one, and every submitted POST is answered in the end.
C40_ExactlyOneResponse ==
    /\ [](\A c \in CallIds :
            calls[c].outcome # "unauthorized" =>
               /\ calls[c].pc \in {"done", "threw"} => calls[c].status # 0
               /\ calls[c].status # 0 =>
                     /\ <<calls[c].status, calls[c].outcome>> \in PostResponses
                     /\ calls[c].status = 200 => calls[c].result.id = calls[c].id)
    /\ [][\A c \in CallIds :
            calls[c].status # 0 =>
               /\ calls'[c].status = calls[c].status
               /\ calls'[c].result = calls[c].result]_vars
    /\ \A c \in CallIds : (calls[c].pc # "idle") ~> (calls[c].status # 0)

\* C32: no error event of a wrapper is ever emitted without an 'error'
\* listener attached to it, whether a stream is open or not.
C32_ErrorEventsHandled == ~unhandled

\* wrapper k is running when the step ends
RunsAfter(k) == wrappers'[k].child = "alive" /\ isRunning(wrappers'[k])

\* C33: getOrCreateMCPWrapper only ever returns an instance that is running
\* at that moment, never one whose process has exited; a call made when the
\* instance has exited and no creation is in flight spawns a new process and
\* waits for it; the health endpoint reports mcpRunning only for a live,
\* initialized instance, stops doing so at the exit, and starts again only
\* when the start() of a new instance succeeds; and a caller waiting for the
\* new instance gets it, or its failure, when its start-up ends.
C33_ExitedInstanceNotReturned ==
    /\ [](health.mcpRunning =>
            /\ wrappers[globalMCPWrapper].child = "alive"
            /\ wrappers[globalMCPWrapper].isInitialized)
    /\ [][/\ \A s \in StreamIds :
                streams'[s].wrapper # streams[s].wrapper => RunsAfter(streams'[s].wrapper)
          /\ \A c \in CallIds :
                calls'[c].wrapper # calls[c].wrapper => RunsAfter(calls'[c].wrapper)
          /\ warm'.wrapper # warm.wrapper => RunsAfter(warm'.wrapper)]_vars
    /\ [][(/\ globalMCPWrapper # 0
           /\ wrappers[globalMCPWrapper].child = "exited"
           /\ wrapperCreationPromise = 0
           /\ CallsGetOrCreate)
          => /\ nWrappers' = nWrappers + 1
             /\ wrapperCreationPromise' = nWrappers'
             /\ wrappers'[nWrappers'].child \in {"alive", "spawnError"}
             /\ globalMCPWrapper' = globalMCPWrapper]_vars
    /\ [][/\ (health.mcpRunning /\ ProcessExit(globalMCPWrapper)) => ~health.mcpRunning'
          /\ (~health.mcpRunning /\ health.mcpRunning') =>
                /\ StartSucceeds(globalMCPWrapper')
                /\ globalMCPWrapper' # globalMCPWrapper]_vars
    /\ \A c \in CallIds : (calls[c].pc = "awaitWrapper") ~> (calls[c].pc # "awaitWrapper")

\* the first instance exited, the health endpoint reports the second one and
\* a POST made after the exit holds the second one
C33_Witness ==
    /\ wrappers[1].child = "exited"
    /\ globalMCPWrapper = 2
    /\ health.mcpRunning
    /\ calls[1].wrapper = 2

\* -------------------------------------- claims on the SessionManager (2)
\* createSession() of session s settles in this step
SettlesNow(s) ==
    /\ sessions[s].pc \in {"none", "awaitStart"}
    /\ sessions'[s].pc \in {"returned", "threw"}

\* C35: a session is in the map while its createSession() awaits start();
\* when start() fails createSession() removes it and throws, when start()
\* succeeds it returns the id of a session that is in the map; and once
\* createSession() has settled the map has the session exactly when start()
\* succeeded and the process has not exited.
C35_MapAfterCreateSession ==
    /\ [](\A s \in SessionIds :
            /\ (/\ sessions[s].pc = "awaitStart"
                /\ sessions[s].mcpWrapper.child = "alive"
                /\ ~sessions[s].mcpWrapper.killed) => sessions[s].inMap
            /\ sessions[s].pc \in {"returned", "threw"} =>
                  (sessions[s].inMap <=>
                      /\ sessions[s].mcpWrapper.start = "resolved"
                      /\ sessions[s].mcpWrapper.child # "exited")
            /\ sessions[s].pc = "returned" <=> sessions[s].mcpWrapper.start = "resolved"
            /\ sessions[s].pc = "threw" <=> sessions[s].mcpWrapper.start = "rejected")
    /\ [][\A s \in SessionIds :
            SettlesNow(s) =>
                IF sessions'[s].mcpWrapper.start = "resolved"
                THEN sessions'[s].pc = "returned" /\ sessions'[s].inMap
                ELSE sessions'[s].pc = "threw" /\ ~sessions'[s].inMap]_vars

\* one createSession() threw and left no session, another returned the id of
\* a session in the map
C35_Witness ==
    /\ sessions[1].pc = "threw"
    /\ sessions[1].mcpWrapper.child = "failed"
    /\ ~sessions[1].inMap
    /\ sessions[2].pc = "returned"
    /\ sessions[2].inMap

\* C36: the exit of a session's process writes one disconnected event to
\* the session's stream, the only one it ever gets, ends the stream, and
\* leaves the session out of the map; a destroySession of a session whose
\* process has exited, or of an id the map does not have, changes nothing
\* and awaits nothing; no destroySession touches another session; and a
\* destroySession that awaits stop() completes.
C36_ExitRemovesSession ==
    /\ [](\A s \in SessionIds :
            /\ sessions[s].disconnected <= 1
            /\ sessions[s].mcpWrapper.child = "exited" =>
                  /\ sessions[s].disconnected = 1
                  /\ sessions[s].ended
                  /\ ~sessions[s].inMap
                  /\ ~sessions[s].stopping)
    /\ [][\A s \in SessionIds :
            /\ SessionExit(s) =>
                  /\ sessions'[s].disconnected = sessions[s].disconnected + 1
                  /\ sessions'[s].ended
                  /\ \A t \in SessionIds \ {s} : sessions'[t] = sessions[t]
            /\ DestroySession(s) =>
                  /\ \A t \in SessionIds \ {s} : sessions'[t] = sessions[t]
                  /\ (sessions[s].mcpWrapper.child = "exited" \/ ~sessions[s].inMap)
                        => sessions' = sessions]_vars
    /\ \A s \in SessionIds : sessions[s].stopping ~> ~sessions[s].stopping

\* the process of a session that createSession() had returned exited and the
\* session is gone, while the other session and its process live on
C36_Witness ==
    /\ sessions[1].pc = "returned"
    /\ sessions[1].mcpWrapper.child = "exited"
    /\ sessions[1].disconnected = 1
    /\ sessions[1].ended
    /\ ~sessions[1].inMap
    /\ sessions[2].inMap
    /\ isRunning(sessions[2].mcpWrapper)

\* ------------------------------------------------ claims on the bridge (4)
\* the message listeners attached to the wrappers, each with its wrapper
MessageListeners ==
    {kl \in WrapperIds \X UNION {wrappers[j].message : j \in WrapperIds} :
        kl[2] \in wrappers[kl[1]].message}

\* the correlated calls that are pending: POSTs and warm-up requests
PendingCalls ==
    Cardinality({c \in CallIds : calls[c].pc = "waiting"})
    + (IF warm.pc \in {"awaitInit", "awaitTools"} THEN 1 ELSE 0)

\* C37: the message listeners attached to the wrappers are as many as the
\* streams that are open with their client connected plus the correlated
\* calls that are pending, and each of them belongs to such a stream or to
\* such a call.
C37_ListenersMatchPending ==
    /\ Cardinality(MessageListeners)
          = Cardinality({s \in StreamIds : Attached(s)}) + PendingCalls
    /\ \A k \in WrapperIds :
          /\ \A s \in SseListeners(k) : Attached(s)
          /\ \A c \in PostListeners(k) : calls[c].pc = "waiting"
          /\ Listener("warm", 1) \in wrappers[k].message => warm.pc = "awaitInit"
          /\ Listener("warm", 2) \in wrappers[k].message => warm.pc = "awaitTools"

\* -------------------------------------------- claims on the supervisor (2)
\* C38: the 5000 ms timer of a stop() signals no process other than the one
\* that stop() was called on.
C38_ForceKillOnlyItsProcess ==
    [][\A j \in StopIds :
          SupKillTimer(j) =>
             \A n \in ChildIds \ {stops[j].target} : children'[n] = children[n]]_vars

\* the start() of child n failed and no later start() has succeeded
FailedStart(n) ==
    /\ starts[n] = "rejected"
    /\ \A i \in ChildIds : i > n => starts[i] # "resolved"

\* C39: while the last start() that settled on the wrapper has failed,
\* isRunning() is false and sendMessage throws; the readiness timer that
\* fires after a spawn error leaves isInitialized false.
C39_FailedStartNeverRuns ==
    /\ [](\A n \in ChildIds :
            FailedStart(n) => ~isRunning(Wrapper) /\ sendMessageThrows(Wrapper))
    /\ [][\A n \in ChildIds :
            (children[n].state = "failed" /\ SupReadyTimer(n))
               => ~this'.isInitialized]_vars

====
